---- MODULE Spec2Model ----
(***************************************************************************)
(* Model of math-buddy's backend.  The core is clean_reasoning_output      *)
(* (backend/services/llm.py), the routine that strips <think>/<thinking>   *)
(* spans from raw model text and re-spaces the markdown.  Around it stand  *)
(* the model clients call_ollama and call_github_model with the handlers   *)
(* that use them, and the quiz-session store (quiz_storage.py).            *)
(*                                                                         *)
(* A Python str is a sequence of one-character strings, so that the        *)
(* regular-expression passes are computed character by character.          *)
(***************************************************************************)
EXTENDS Integers, Sequences, FiniteSets, TLC

VARIABLES
    parts,            \* the pieces the model text was assembled from
    input,            \* the argument of clean_reasoning_output
    pc,               \* position inside clean_reasoning_output
    text,             \* the local variable text
    lines,            \* the local variable lines
    i,                \* the loop index of enumerate(lines): lines done so far
    formatted_lines,  \* the local variable formatted_lines
    result,           \* the returned value
    running,          \* the invocation of clean_reasoning_output that is executing
    suspended,        \* the frames of the invocations that are not executing
    environ,          \* os.environ: USE_LOCAL_LLM and GITHUB_TOKEN
    handler,          \* the activation of a handler of llm.py
    client,           \* the activation of call_ollama / call_github_model
    response,         \* the HTTP response of the endpoint
    _sessions,        \* QuizStorage._sessions
    calls,            \* the calls made to the store, oldest first
    ret,              \* what the last call to the store returned
    requests          \* the activations of the endpoints of main.py, by request

\* the locals of one invocation of clean_reasoning_output
cleaner == <<parts, input, pc, text, lines, i, formatted_lines, result>>

\* everything outside the executing invocation of clean_reasoning_output
outside ==
    <<running, suspended, environ, handler, client, response, _sessions, calls, ret,
      requests>>

vars == <<cleaner, outside>>

\* Python's None: a value that is no string (no sequence of single characters).
None == <<"None">>

\* no value returned yet
Unset == <<"unset">>

\* ------------------------------------------------------------------ bounds
MaxPieces == 4
MaxLayout == 5
MaxCtx == 2
MaxTotal == 3
MaxLines == 4
MaxResponse == 2
MaxConcurrent == 2
MaxCalls == 4
MaxAnswers == 2
MaxText == 4
MaxUpload == 3

\* ------------------------------------------------------------ characters
Min(S) == CHOOSE x \in S : \A y \in S : x <= y
Max(S) == CHOOSE x \in S : \A y \in S : x >= y

\* str.isspace() / the regex class \s of a str pattern, over the characters
\* up to U+00FF (a string of this module holds no character above it):
\* space, \t, \n, \r, \f, then U+000B, U+001C to U+001F, U+0085 and
\* U+00A0, written as the characters themselves
IsSpace(c) ==
    c \in {" ", "\t", "\n", "\r", "\f",
           "", "", "", "", "", "", " "}

\* the regex class [ \t]
IsBlank(c) == c \in {" ", "\t"}

\* the regex class \d
IsDigit(c) == c \in {"0", "1", "2", "3", "4", "5", "6", "7", "8", "9"}

\* re.IGNORECASE: the patterns hold only the letters t h i n k g
Lower(c) ==
    CASE c = "T" -> "t" [] c = "H" -> "h" [] c = "I" -> "i"
      [] c = "N" -> "n" [] c = "K" -> "k" [] c = "G" -> "g"
      [] OTHER -> c

\* the four tags, as the patterns spell them
OpenThink     == <<"<", "t", "h", "i", "n", "k", ">">>
CloseThink    == <<"<", "/", "t", "h", "i", "n", "k", ">">>
OpenThinking  == <<"<", "t", "h", "i", "n", "k", "i", "n", "g", ">">>
CloseThinking == <<"<", "/", "t", "h", "i", "n", "k", "i", "n", "g", ">">>

\* pat matches s at position p, ignoring case
MatchAt(s, p, pat) ==
    /\ p >= 1
    /\ p + Len(pat) - 1 <= Len(s)
    /\ \A k \in 1..Len(pat) : Lower(s[p + k - 1]) = pat[k]

\* first position >= from where pat matches s, 0 when there is none
Find(s, pat, from) ==
    LET hits == {p \in from..(Len(s) - Len(pat) + 1) : MatchAt(s, p, pat)}
    IN  IF hits = {} THEN 0 ELSE Min(hits)

Tail2(s, p) == SubSeq(s, p, Len(s))

\* every Python str of the model.  The scans below are local recursive
\* functions over Str: a function is applied to the value of its argument,
\* so the rest of the text is computed once per match.
Str == Seq(STRING)

\* ------------------------------------------------------- tag removal
\* SubSpan with the span replaced by the empty string
SubSpanFuse(s, open, close) ==
    LET Sub[t \in Str] ==
            LET o == Find(t, open, 1)
                c == IF o = 0 THEN 0 ELSE Find(t, close, o + Len(open))
            IN  IF c = 0 THEN t
                ELSE SubSeq(t, 1, o - 1) \o Sub[Tail2(t, c + Len(close))]
    IN  Sub[s]

\* re.sub(open + '.*?' + close, ' ', s, flags=re.DOTALL | re.IGNORECASE)
\* the leftmost opening tag that has a closing tag behind it is replaced, up
\* to the nearest such closing tag, and the scan goes on behind the match
SubSpan(s, open, close) ==
    LET Sub[t \in Str] ==
            LET o == Find(t, open, 1)
                c == IF o = 0 THEN 0 ELSE Find(t, close, o + Len(open))
            IN  IF c = 0 THEN t
                ELSE SubSeq(t, 1, o - 1) \o <<" ">> \o Sub[Tail2(t, c + Len(close))]
    IN  Sub[s]

\* SubTag with the tag replaced by the empty string
SubTagDrop(s, open, close) ==
    LET Sub[t \in Str] ==
            LET o == Find(t, open, 1)
                c == Find(t, close, 1)
            IN  IF o = 0 /\ c = 0 THEN t
                ELSE IF c = 0 \/ (o # 0 /\ o < c)
                     THEN SubSeq(t, 1, o - 1) \o Sub[Tail2(t, o + Len(open))]
                     ELSE SubSeq(t, 1, c - 1) \o Sub[Tail2(t, c + Len(close))]
    IN  Sub[s]

\* re.sub('</?' + name + '>', ' ', s, flags=re.IGNORECASE)
\* open and close are the two strings the pattern matches
SubTag(s, open, close) ==
    LET Sub[t \in Str] ==
            LET o == Find(t, open, 1)
                c == Find(t, close, 1)
            IN  IF o = 0 /\ c = 0 THEN t
                ELSE IF c = 0 \/ (o # 0 /\ o < c)
                     THEN SubSeq(t, 1, o - 1) \o <<" ">> \o Sub[Tail2(t, o + Len(open))]
                     ELSE SubSeq(t, 1, c - 1) \o <<" ">> \o Sub[Tail2(t, c + Len(close))]
    IN  Sub[s]

\* RemovePairs without the two passes for mismatched spellings
RemovePairsSameSpelling(s) ==
    SubSpan(SubSpan(s, OpenThink, CloseThink), OpenThinking, CloseThinking)

\* lines 73-78: the four paired passes, in the order of the code
RemovePairs(s) ==
    LET t1 == SubSpan(s, OpenThink, CloseThink)
        t2 == SubSpan(t1, OpenThinking, CloseThinking)
        t3 == SubSpan(t2, OpenThink, CloseThinking)
    IN  SubSpan(t3, OpenThinking, CloseThink)

\* RemoveOrphans without the pass for the long spelling
RemoveOrphansThinkOnly(s) == SubTag(s, OpenThink, CloseThink)

\* lines 81-82: the two standalone passes
RemoveOrphans(s) ==
    SubTag(SubTag(s, OpenThink, CloseThink), OpenThinking, CloseThinking)

\* --------------------------------------------------- whitespace passes
\* CollapseBlanks with the pattern ' +': a tab is no blank
CollapseBlanksSpacesOnly(s) ==
    LET Sub[t \in Str] ==
            IF t = <<>> THEN <<>>
            ELSE IF t[1] = " "
                 THEN LET rest == {p \in 1..Len(t) : t[p] # " "}
                      IN  IF rest = {} THEN <<" ">>
                          ELSE <<" ">> \o Sub[Tail2(t, Min(rest))]
                 ELSE <<t[1]>> \o Sub[Tail(t)]
    IN  Sub[s]

\* re.sub(r'[ \t]+', ' ', s)
CollapseBlanks(s) ==
    LET Sub[t \in Str] ==
            IF t = <<>> THEN <<>>
            ELSE IF IsBlank(t[1])
                 THEN LET rest == {p \in 1..Len(t) : ~IsBlank(t[p])}
                      IN  IF rest = {} THEN <<" ">>
                          ELSE <<" ">> \o Sub[Tail2(t, Min(rest))]
                 ELSE <<t[1]>> \o Sub[Tail(t)]
    IN  Sub[s]

\* last position of the run of \s characters that starts at p
RunEnd(s, p) ==
    Min({q \in p..Len(s) : ~IsSpace(s[q])} \cup {Len(s) + 1}) - 1

\* positions of the newlines of the whitespace run that starts at p
RunNewlines(s, p) == {q \in p..RunEnd(s, p) : s[q] = "\n"}

\* CollapseNewlines with the pattern '\n\n\n+': no whitespace between the breaks
CollapseNewlinesPlain(s) ==
    LET Sub[t \in Str] ==
            LET starts == {p \in 1..(Len(t) - 2) :
                              t[p] = "\n" /\ t[p + 1] = "\n" /\ t[p + 2] = "\n"}
            IN  IF starts = {} THEN t
                ELSE LET p == Min(starts)
                         e == Min({q \in p..Len(t) : t[q] # "\n"} \cup {Len(t) + 1}) - 1
                     IN  SubSeq(t, 1, p - 1) \o <<"\n", "\n">> \o Sub[Tail2(t, e + 1)]
    IN  Sub[s]

\* CollapseNewlines with the replacement '\n': the paragraph break is lost
CollapseNewlinesToOne(s) ==
    LET Sub[t \in Str] ==
            LET starts == {p \in 1..Len(t) :
                              t[p] = "\n" /\ Cardinality(RunNewlines(t, p)) >= 3}
            IN  IF starts = {} THEN t
                ELSE LET p == Min(starts)
                         e == Max(RunNewlines(t, p))
                     IN  SubSeq(t, 1, p - 1) \o <<"\n">> \o Sub[Tail2(t, e + 1)]
    IN  Sub[s]

\* re.sub(r'\n\s*\n\s*\n+', '\n\n', s): a match starts at the first newline
\* of a whitespace run holding three or more and ends at the run's last one
CollapseNewlines(s) ==
    LET Sub[t \in Str] ==
            LET starts == {p \in 1..Len(t) :
                              t[p] = "\n" /\ Cardinality(RunNewlines(t, p)) >= 3}
            IN  IF starts = {} THEN t
                ELSE LET p == Min(starts)
                         e == Max(RunNewlines(t, p))
                     IN  SubSeq(t, 1, p - 1) \o <<"\n", "\n">> \o Sub[Tail2(t, e + 1)]
    IN  Sub[s]

\* str.strip()
Strip(s) ==
    LET keep == {p \in 1..Len(s) : ~IsSpace(s[p])}
    IN  IF keep = {} THEN <<>> ELSE SubSeq(s, Min(keep), Max(keep))

\* str.split('\n'): never empty, '' gives ['']
Split(s) ==
    LET Sub[t \in Str] ==
            LET nl == {p \in 1..Len(t) : t[p] = "\n"}
            IN  IF nl = {} THEN <<t>>
                ELSE <<SubSeq(t, 1, Min(nl) - 1)>> \o Sub[Tail2(t, Min(nl) + 1)]
    IN  Sub[s]

\* ''.join(ls): the lines are glued without a line break
JoinFused(ls) ==
    LET Sub[t \in Seq(Str)] ==
            IF t = <<>> THEN <<>>
            ELSE t[1] \o Sub[Tail(t)]
    IN  Sub[ls]

\* '\n'.join(ls)
Join(ls) ==
    LET Sub[t \in Seq(Str)] ==
            IF t = <<>> THEN <<>>
            ELSE IF Len(t) = 1 THEN t[1]
            ELSE t[1] \o <<"\n">> \o Sub[Tail(t)]
    IN  Sub[ls]

\* ------------------------------------------------------------- reflow
\* line.startswith('#')
IsHeading(line) == line # <<>> /\ line[1] = "#"

\* line.startswith(('-', '*', '+')) or re.match(r'^\d+\.', line)
IsBullet(line) == line # <<>> /\ line[1] \in {"-", "*", "+"}

IsNumbered(line) ==
    LET nd == Min({p \in 1..Len(line) : ~IsDigit(line[p])} \cup {Len(line) + 1})
    IN  nd > 1 /\ nd <= Len(line) /\ line[nd] = "."

IsListItem(line) == IsBullet(line) \/ IsNumbered(line)

\* FormatLine with a blank line before every heading, also behind a blank line
FormatLineAlwaysBlank(fl, k, raw) ==
    LET line == Strip(raw)
        f1   == IF IsHeading(line) /\ k > 0 /\ fl # <<>>
                THEN Append(fl, <<>>) ELSE fl
        p1   == IF f1 = <<>> THEN <<>> ELSE f1[Len(f1)]
        f2   == IF IsListItem(line) /\ k > 0 /\ f1 # <<>> /\ p1 # <<>>
                   /\ ~IsBullet(p1) /\ ~IsNumbered(p1)
                THEN Append(f1, <<>>) ELSE f1
    IN  IF line = <<>> THEN Append(fl, <<>>) ELSE Append(f2, line)

\* FormatLine with a blank line before a list item also behind a list item
FormatLineNoListCheck(fl, k, raw) ==
    LET line == Strip(raw)
        prev == IF fl = <<>> THEN <<>> ELSE fl[Len(fl)]
        f1   == IF IsHeading(line) /\ k > 0 /\ fl # <<>> /\ prev # <<>>
                THEN Append(fl, <<>>) ELSE fl
        p1   == IF f1 = <<>> THEN <<>> ELSE f1[Len(f1)]
        f2   == IF IsListItem(line) /\ k > 0 /\ f1 # <<>> /\ p1 # <<>>
                THEN Append(f1, <<>>) ELSE f1
    IN  IF line = <<>> THEN Append(fl, <<>>) ELSE Append(f2, line)

\* FormatLine without the rule for headings (lines 105-106)
FormatLineNoHeading(fl, k, raw) ==
    LET line == Strip(raw)
        p1   == IF fl = <<>> THEN <<>> ELSE fl[Len(fl)]
        f2   == IF IsListItem(line) /\ k > 0 /\ fl # <<>> /\ p1 # <<>>
                   /\ ~IsBullet(p1) /\ ~IsNumbered(p1)
                THEN Append(fl, <<>>) ELSE fl
    IN  IF line = <<>> THEN Append(fl, <<>>) ELSE Append(f2, line)

\* FormatLine without the rule for list items (lines 109-110)
FormatLineNoList(fl, k, raw) ==
    LET line == Strip(raw)
        prev == IF fl = <<>> THEN <<>> ELSE fl[Len(fl)]
        f1   == IF IsHeading(line) /\ k > 0 /\ fl # <<>> /\ prev # <<>>
                THEN Append(fl, <<>>) ELSE fl
    IN  IF line = <<>> THEN Append(fl, <<>>) ELSE Append(f1, line)

\* FormatLine with a blank line also behind a heading
FormatLineBlankAfterHeading(fl, k, raw) ==
    LET line == Strip(raw)
        prev == IF fl = <<>> THEN <<>> ELSE fl[Len(fl)]
        f1   == IF (IsHeading(line) \/ IsHeading(prev)) /\ k > 0 /\ fl # <<>> /\ prev # <<>>
                THEN Append(fl, <<>>) ELSE fl
        p1   == IF f1 = <<>> THEN <<>> ELSE f1[Len(f1)]
        f2   == IF IsListItem(line) /\ k > 0 /\ f1 # <<>> /\ p1 # <<>>
                   /\ ~IsBullet(p1) /\ ~IsNumbered(p1)
                THEN Append(f1, <<>>) ELSE f1
    IN  IF line = <<>> THEN Append(fl, <<>>) ELSE Append(f2, line)

\* one iteration of the loop of lines 98-112: fl is formatted_lines, k the
\* 0-based index of enumerate, raw the line before line.strip()
FormatLine(fl, k, raw) ==
    LET line == Strip(raw)
        prev == IF fl = <<>> THEN <<>> ELSE fl[Len(fl)]
        f1   == IF IsHeading(line) /\ k > 0 /\ fl # <<>> /\ prev # <<>>
                THEN Append(fl, <<>>) ELSE fl
        p1   == IF f1 = <<>> THEN <<>> ELSE f1[Len(f1)]
        f2   == IF IsListItem(line) /\ k > 0 /\ f1 # <<>> /\ p1 # <<>>
                   /\ ~IsBullet(p1) /\ ~IsNumbered(p1)
                THEN Append(f1, <<>>) ELSE f1
    IN  IF line = <<>> THEN Append(fl, <<>>) ELSE Append(f2, line)

\* `if text is None` in the place of `if not text`
IsFalsyNoneOnly(t) == t = None

\* `if not text`
IsFalsy(t) == t = None \/ t = <<>>

\* -------------------------------------------- the function as a whole
RECURSIVE FormatAll(_, _, _)
FormatAll(fl, k, ls) ==
    IF k >= Len(ls) THEN fl ELSE FormatAll(FormatLine(fl, k, ls[k + 1]), k + 1, ls)

clean_reasoning_output(t) ==
    IF IsFalsy(t) THEN t
    ELSE LET t1 == RemoveOrphans(RemovePairs(t))
             t2 == Strip(CollapseNewlines(CollapseBlanks(t1)))
         IN  Strip(Join(FormatAll(<<>>, 0, Split(t2))))

\* ------------------------------------------------------------ inputs
RECURSIVE Flatten(_)
Flatten(ps) == IF ps = <<>> THEN <<>> ELSE ps[1] \o Flatten(Tail(ps))

SeqsUpTo(S, n) == UNION {[1..k -> S] : k \in 0..n}

\* pieces of raw model text with tags: the four tags, two case variants,
\* two fragments of a tag, a word, a space and a line break
TagPieces ==
    { OpenThink, CloseThink, OpenThinking, CloseThinking,
      <<"<", "T", "H", "I", "N", "K", ">">>,
      <<"<", "/", "T", "h", "i", "n", "k", "i", "n", "g", ">">>,
      <<"<", "t", "h", "i">>, <<"n", "k", ">">>,
      <<"a">>, <<" ">>, <<"\n">> }

\* a whole reasoning span, used as one piece of markdown text
SpanPiece == OpenThink \o <<"x">> \o CloseThink

LayoutPieces ==
    { <<"a">>, <<" ">>, <<"\t">>, <<"\n">>, <<"\n", "\n">>,
      <<"#">>, <<"-">>, <<"1", ".">>, SpanPiece }

\* opening and closing tags in both spellings and several letter cases
OpenTags ==
    { OpenThink, OpenThinking,
      <<"<", "T", "H", "I", "N", "K", ">">>,
      <<"<", "T", "h", "i", "n", "K", "i", "n", "g", ">">> }

CloseTags ==
    { CloseThink, CloseThinking,
      <<"<", "/", "T", "h", "i", "n", "k", ">">>,
      <<"<", "/", "T", "H", "I", "N", "K", "I", "N", "G", ">">> }

\* text around a span: a word letter, spaces and line breaks
Contexts(letter) ==
    {Flatten(q) : q \in SeqsUpTo({<<letter>>, <<" ">>, <<"\n">>}, MaxCtx)}

\* text inside a span
Bodies == { <<>>, <<"x">>, <<"x", "\n", "x">> }

\* ------------------------------------------- outside the function
\* a dict without keys
EmptyDict == [k \in {} |-> None]

\* no handler is active
NoHandler ==
    [name |-> "none", at |-> "idle", question |-> <<>>, theme |-> <<>>, age |-> 0,
     value |-> Unset]

\* no client call is active
NoClient ==
    [fn |-> "none", at |-> "idle", raw_response |-> Unset, cleanings |-> 0,
     cleaned_response |-> Unset]

\* no environment variable is set
NoEnviron == [USE_LOCAL_LLM |-> None, GITHUB_TOKEN |-> None]

\* what a method of the store returned: nothing yet, None, a session, a
\* dict, or the exception it raised
NotCalled == [is |-> "unset"]
ReturnedNone == [is |-> "None"]
ReturnedSession(x) == [is |-> "QuizSession", session |-> x]
ReturnedDict(d) == [is |-> "dict", dict |-> d]
RaisedKeyError == [is |-> "KeyError"]

\* a fresh QuizStorage that nobody has called
StoreUnused == _sessions = EmptyDict /\ calls = <<>> /\ ret = NotCalled

\* nothing has been answered: no HTTP status yet
NoResponse == [status |-> 0, body |-> [detail |-> <<>>]]

\* no request is being served
NoRequest ==
    /\ handler = NoHandler
    /\ client = NoClient
    /\ response = NoResponse
    /\ requests = EmptyDict

\* the function is called directly, once, by the main thread
Alone ==
    /\ running = "main"
    /\ suspended = EmptyDict
    /\ environ = NoEnviron
    /\ NoRequest
    /\ StoreUnused

\* ------------------------------------------------------------ actions
Enter(ps) ==
    /\ parts = ps
    /\ input = Flatten(ps)
    /\ pc = "call"
    /\ text = Flatten(ps)
    /\ lines = <<>>
    /\ i = 0
    /\ formatted_lines = <<>>
    /\ result = Unset
    /\ Alone

EnterNone ==
    /\ parts = <<>>
    /\ input = None
    /\ pc = "call"
    /\ text = None
    /\ lines = <<>>
    /\ i = 0
    /\ formatted_lines = <<>>
    /\ result = Unset
    /\ Alone

\* raw model text with tags in any order
Init == EnterNone \/ \E ps \in SeqsUpTo(TagPieces, MaxPieces) : Enter(ps)

\* the same pieces, fewer of them: the calls whose termination is checked
InitTotal == EnterNone \/ \E ps \in SeqsUpTo(TagPieces, MaxTotal) : Enter(ps)

\* markdown text: words, blanks, line breaks, markers and whole spans
InitLayout == EnterNone \/ \E ps \in SeqsUpTo(LayoutPieces, MaxLayout) : Enter(ps)

\* the same markdown pieces, fewer of them: the texts whose lines are compared
InitLines == EnterNone \/ \E ps \in SeqsUpTo(LayoutPieces, MaxLines) : Enter(ps)

\* one span between two contexts: a, opening tag, body, closing tag, b
InitSpan ==
    \/ EnterNone
    \/ Enter(<<>>)
    \/ \E a \in Contexts("a"), b \in Contexts("b") :
       \E o \in OpenTags, c \in CloseTags, x \in Bodies : Enter(<<a, o, x, c, b>>)

\* lines 69-70
EarlyReturn ==
    /\ pc = "call"
    /\ IsFalsy(text)
    /\ result' = text
    /\ pc' = "done"
    /\ UNCHANGED <<parts, input, text, lines, i, formatted_lines>>
    /\ UNCHANGED outside

\* lines 73-78
RemovePairedTags ==
    /\ pc = "call"
    /\ ~IsFalsy(text)
    /\ text' = RemovePairs(text)
    /\ pc' = "paired"
    /\ UNCHANGED <<parts, input, lines, i, formatted_lines, result>>
    /\ UNCHANGED outside

\* lines 81-82
RemoveOrphanTags ==
    /\ pc = "paired"
    /\ text' = RemoveOrphans(text)
    /\ pc' = "untagged"
    /\ UNCHANGED <<parts, input, lines, i, formatted_lines, result>>
    /\ UNCHANGED outside

\* line 85
CollapseSpaces ==
    /\ pc = "untagged"
    /\ text' = CollapseBlanks(text)
    /\ pc' = "spaced"
    /\ UNCHANGED <<parts, input, lines, i, formatted_lines, result>>
    /\ UNCHANGED outside

\* line 88
CollapseBlankLines ==
    /\ pc = "spaced"
    /\ text' = CollapseNewlines(text)
    /\ pc' = "collapsed"
    /\ UNCHANGED <<parts, input, lines, i, formatted_lines, result>>
    /\ UNCHANGED outside

\* lines 91-96
StripAndSplit ==
    /\ pc = "collapsed"
    /\ text' = Strip(text)
    /\ lines' = Split(Strip(text))
    /\ formatted_lines' = <<>>
    /\ i' = 0
    /\ pc' = "loop"
    /\ UNCHANGED <<parts, input, result>>
    /\ UNCHANGED outside

\* lines 98-112, one iteration
ReflowLine ==
    /\ pc = "loop"
    /\ i < Len(lines)
    /\ formatted_lines' = FormatLine(formatted_lines, i, lines[i + 1])
    /\ i' = i + 1
    /\ UNCHANGED <<parts, input, pc, text, lines, result>>
    /\ UNCHANGED outside

\* Return without a value: a function body that ends without `return`
ReturnNothing ==
    /\ pc = "loop"
    /\ i >= Len(lines)
    /\ result' = None
    /\ pc' = "done"
    /\ UNCHANGED <<parts, input, text, lines, i, formatted_lines>>
    /\ UNCHANGED outside

\* line 114
Return ==
    /\ pc = "loop"
    /\ i >= Len(lines)
    /\ result' = Strip(Join(formatted_lines))
    /\ pc' = "done"
    /\ UNCHANGED <<parts, input, text, lines, i, formatted_lines>>
    /\ UNCHANGED outside

Next ==
    \/ EarlyReturn
    \/ RemovePairedTags
    \/ RemoveOrphanTags
    \/ CollapseSpaces
    \/ CollapseBlankLines
    \/ StripAndSplit
    \/ ReflowLine
    \/ Return

Spec == Init /\ [][Next]_vars

SpecLayout == InitLayout /\ [][Next]_vars

SpecSpan == InitSpan /\ [][Next]_vars

SpecLines == InitLines /\ [][Next]_vars

\* the function is synchronous code: once called it runs to its return
FairSpec == InitTotal /\ [][Next]_vars /\ WF_vars(Next)

\* ------------------------------------------- concurrent invocations
\* the threads that call clean_reasoning_output at the same time
Invocations == {"t1", "t2"}

\* pieces of the texts they clean: a word, a line break, a heading on a new
\* line, a whole span
ConcurrentPieces == { <<"a">>, <<"\n">>, <<"\n", "#">>, SpanPiece }

\* the frame of the executing invocation: its locals
Locals ==
    [parts |-> parts, input |-> input, pc |-> pc, text |-> text, lines |-> lines,
     i |-> i, formatted_lines |-> formatted_lines, result |-> result]

\* the frame of an invocation that was called with Flatten(ps) and has not run
Called(ps) ==
    [parts |-> ps, input |-> Flatten(ps), pc |-> "call", text |-> Flatten(ps),
     lines |-> <<>>, i |-> 0, formatted_lines |-> <<>>, result |-> Unset]

\* t1 and t2 have each called the function; t1 is executing
InitConcurrent ==
    /\ \E a \in SeqsUpTo(ConcurrentPieces, MaxConcurrent) :
          /\ parts = a
          /\ input = Flatten(a)
          /\ pc = "call"
          /\ text = Flatten(a)
          /\ lines = <<>>
          /\ i = 0
          /\ formatted_lines = <<>>
          /\ result = Unset
    /\ running = "t1"
    /\ \E b \in SeqsUpTo(ConcurrentPieces, MaxConcurrent) :
          suspended = [k \in {"t2"} |-> Called(b)]
    /\ environ = NoEnviron
    /\ NoRequest
    /\ StoreUnused

\* a thread switch with formatted_lines a module-level list all threads share
SwitchSharedLines(k) ==
    /\ k \in DOMAIN suspended
    /\ suspended[k].pc # "done"
    /\ parts' = suspended[k].parts
    /\ input' = suspended[k].input
    /\ pc' = suspended[k].pc
    /\ text' = suspended[k].text
    /\ lines' = suspended[k].lines
    /\ i' = suspended[k].i
    /\ UNCHANGED formatted_lines
    /\ result' = suspended[k].result
    /\ suspended' = [j \in (DOMAIN suspended \ {k}) \cup {running} |->
                        IF j = running THEN Locals ELSE suspended[j]]
    /\ running' = k
    /\ UNCHANGED <<environ, handler, client, response, _sessions, calls, ret, requests>>

\* the interpreter switches to thread k between two statements: the frame of
\* the executing invocation is set aside, that of k is taken up; text, lines,
\* i and formatted_lines are locals (lines 62-114 name no global)
Switch(k) ==
    /\ k \in DOMAIN suspended
    /\ suspended[k].pc # "done"
    /\ parts' = suspended[k].parts
    /\ input' = suspended[k].input
    /\ pc' = suspended[k].pc
    /\ text' = suspended[k].text
    /\ lines' = suspended[k].lines
    /\ i' = suspended[k].i
    /\ formatted_lines' = suspended[k].formatted_lines
    /\ result' = suspended[k].result
    /\ suspended' = [j \in (DOMAIN suspended \ {k}) \cup {running} |->
                        IF j = running THEN Locals ELSE suspended[j]]
    /\ running' = k
    /\ UNCHANGED <<environ, handler, client, response, _sessions, calls, ret, requests>>

NextConcurrent == Next \/ \E k \in Invocations : Switch(k)

SpecConcurrent == InitConcurrent /\ [][NextConcurrent]_vars

\* ------------------------------------------------------ configuration
\* str.lower() on one character, over the characters up to U+00FF: the
\* letters A to Z, and U+00C0 to U+00DE without the sign U+00D7
Lowercase(c) ==
    LET upper == <<"A", "B", "C", "D", "E", "F", "G", "H", "I", "J", "K", "L", "M",
                   "N", "O", "P", "Q", "R", "S", "T", "U", "V", "W", "X", "Y", "Z",
                   "À", "Á", "Â", "Ã", "Ä", "Å", "Æ", "Ç", "È", "É", "Ê", "Ë", "Ì",
                   "Í", "Î", "Ï", "Ð", "Ñ", "Ò", "Ó", "Ô", "Õ", "Ö", "Ø", "Ù", "Ú",
                   "Û", "Ü", "Ý", "Þ">>
        small == <<"a", "b", "c", "d", "e", "f", "g", "h", "i", "j", "k", "l", "m",
                   "n", "o", "p", "q", "r", "s", "t", "u", "v", "w", "x", "y", "z",
                   "à", "á", "â", "ã", "ä", "å", "æ", "ç", "è", "é", "ê", "ë", "ì",
                   "í", "î", "ï", "ð", "ñ", "ò", "ó", "ô", "õ", "ö", "ø", "ù", "ú",
                   "û", "ü", "ý", "þ">>
        at    == {k \in 1..Len(upper) : upper[k] = c}
    IN  IF at = {} THEN c ELSE small[CHOOSE k \in at : TRUE]

\* str.lower()
lower(s) == [k \in 1..Len(s) |-> Lowercase(s[k])]

TrueStr  == <<"t", "r", "u", "e">>
FalseStr == <<"f", "a", "l", "s", "e">>

\* os.getenv(name, default)
getenv(name, default) == IF environ[name] = None THEN default ELSE environ[name]

\* line 12
USE_LOCAL_LLM == lower(getenv("USE_LOCAL_LLM", FalseStr)) = TrueStr

\* line 19
GITHUB_TOKEN == getenv("GITHUB_TOKEN", None)

\* mock mode decided by the token alone
MOCKTokenOnly == IsFalsy(GITHUB_TOKEN)

\* lines 23-27
MOCK == IF USE_LOCAL_LLM THEN FALSE ELSE IsFalsy(GITHUB_TOKEN)

\* the settings of USE_LOCAL_LLM tried: unset, true in two spellings, false, 1
LocalSettings == { None, TrueStr, <<"T", "R", "U", "E">>, FalseStr, <<"1">> }

\* the settings of GITHUB_TOKEN tried: unset, empty, a token
Tokens == { None, <<>>, <<"t", "o", "k">> }

\* ------------------------------------------------- handlers and clients
\* the handlers of llm.py that ask a model for text
HandlerNames ==
    { "rewrite_question", "chat", "generate_encouragement", "generate_answer",
      "generate_explanation", "chat_with_context", "generate_minigame_html" }

\* the handlers that wrap call_github_model in try/except and fall back
Guarded ==
    { "rewrite_question", "generate_answer", "generate_explanation",
      "generate_minigame_html" }

\* the request of tests/backend/test_rewrite.py, and an empty question
Questions == { <<"1", "+", "1", "?">>, <<>> }
Themes == { <<"s", "p", "a", "c", "e">>, <<"s", "e", "a">> }
\* the age a request carries when it names none (main.py 49, 160)
Ages == { 10 }

\* str() of an int
IntStr(n) ==
    LET digits == <<"0", "1", "2", "3", "4", "5", "6", "7", "8", "9">>
        Sub[m \in 0..(IF n < 0 THEN 0 - n ELSE n)] ==
            IF m < 10 THEN <<digits[m + 1]>>
            ELSE Sub[m \div 10] \o <<digits[(m % 10) + 1]>>
    IN  IF n < 0 THEN <<"-">> \o Sub[0 - n] ELSE Sub[n]

\* the text a handler returns in mock mode: each format string of the
\* source with its arguments spelled out, the fixed stretches kept whole (one
\* string for each line of a text of several lines). A character above
\* U+00FF is a string of its own, holding its escape as Python writes it:
\* "\\U0001f31f" is the one character U+1F31F. question and theme are the
\* handler's first and second text argument (game_prompt and theme in
\* generate_minigame_html, lines 369-375)
Canned(h) ==
    CASE h.name = "rewrite_question" ->
            <<"[Mock] ">> \o h.question \o <<" with theme ">> \o h.theme
      [] h.name = "chat" -> <<"[Mock] Let's solve it together!">>
      [] h.name = "generate_encouragement" ->
            <<"[Mock] Great job! You're a ">> \o h.theme
                \o <<" champion! ", "\\U0001f31f">>
      [] h.name = "generate_answer" -> <<"4", "2">>
      [] h.name = "generate_explanation" ->
            <<"[Mock] Here's how to solve: ">> \o h.question \o <<" = ">> \o h.theme
      [] h.name = "chat_with_context" -> <<"[Mock] Let's work through this together!">>
      [] h.name = "generate_minigame_html" ->
            <<"\n",
                 "        <div style=\"text-align: center; padding: 20px; font-family: Arial;\">\n",
                 "            <h2>",
                 "\\U0001f3ae",
                 " ">>
            \o h.theme
            \o <<" Math Adventure</h2>\n",
                 "            <p>[Mock] ">>
            \o h.question
            \o <<"</p>\n",
                 "            <button onclick=\"alert('Mock game!')\">Start Game!</button>\n",
                 "        </div>\n",
                 "        ">>

\* the text a guarded handler returns when call_github_model raised; the
\* page of generate_minigame_html is the format string of lines 476-640
Fallback(h) ==
    CASE h.name = "rewrite_question" ->
            <<"[Mock Fallback] ">> \o h.question \o <<" with theme ">> \o h.theme
      [] h.name = "generate_answer" -> <<"Error generating answer">>
      [] h.name = "generate_explanation" -> <<"Error generating explanation">>
      [] h.name = "generate_minigame_html" ->
            <<"\n",
                 "            <!DOCTYPE html>\n",
                 "            <html lang=\"en\">\n",
                 "            <head>\n",
                 "                <meta charset=\"UTF-8\">\n",
                 "                <meta name=\"viewport\" content=\"width=device-width, initial-scale=1.0\">\n",
                 "                <title>">>
            \o h.theme
            \o <<" Math Fun</title>\n",
                 "                <style>\n",
                 "                    body { \n",
                 "                        font-family: 'Comic Sans MS', Arial, sans-serif; \n",
                 "                        margin: 0; \n",
                 "                        padding: 20px; \n",
                 "                        background: linear-gradient(to bottom, #87CEEB, #98FB98);\n",
                 "                        text-align: center;\n",
                 "                        min-height: 100vh;\n",
                 "                    }\n",
                 "                    .game-box { \n",
                 "                        max-width: 500px; \n",
                 "                        margin: 0 auto;\n",
                 "                        background: white; \n",
                 "                        border-radius: 20px; \n",
                 "                        padding: 30px; \n",
                 "                        box-shadow: 0 10px 30px rgba(0,0,0,0.2);\n",
                 "                        border: 5px solid #FFD700;\n",
                 "                    }\n",
                 "                    .big-title { \n",
                 "                        font-size: 2.5em; \n",
                 "                        color: #333;\n",
                 "                        margin-bottom: 20px;\n",
                 "                        text-shadow: 2px 2px 4px rgba(0,0,0,0.1);\n",
                 "                    }\n",
                 "                    .simple-text { \n",
                 "                        font-size: 20px; \n",
                 "                        color: #555;\n",
                 "                        margin: 15px 0;\n",
                 "                        line-height: 1.5;\n",
                 "                    }\n",
                 "                    .big-button { \n",
                 "                        padding: 20px 40px; \n",
                 "                        font-size: 24px; \n",
                 "                        background: #4CAF50; \n",
                 "                        color: white; \n",
                 "                        border: none; \n",
                 "                        border-radius: 15px; \n",
                 "                        cursor: pointer; \n",
                 "                        margin: 15px; \n",
                 "                        box-shadow: 0 5px 10px rgba(0,0,0,0.2);\n",
                 "                        font-family: 'Comic Sans MS', Arial, sans-serif;\n",
                 "                        font-weight: bold;\n",
                 "                        min-width: 200px;\n",
                 "                        min-height: 60px;\n",
                 "                    }\n",
                 "                    .big-button:hover { \n",
                 "                        background: #45a049;\n",
                 "                        transform: scale(1.05);\n",
                 "                        transition: all 0.2s ease;\n",
                 "                    }\n",
                 "                    .happy-emoji { \n",
                 "                        font-size: 3em; \n",
                 "                        margin: 20px 0;\n",
                 "                        animation: bounce 2s infinite;\n",
                 "                    }\n",
                 "                    @keyframes bounce {\n",
                 "                        0%, 20%, 50%, 80%, 100% { transform: translateY(0); }\n",
                 "                        40% { transform: translateY(-15px); }\n",
                 "                        60% { transform: translateY(-7px); }\n",
                 "                    }\n",
                 "                    .instruction { \n",
                 "                        background: #FFF9C4;\n",
                 "                        border: 3px solid #FFD54F;\n",
                 "                        border-radius: 15px;\n",
                 "                        padding: 20px;\n",
                 "                        margin: 20px 0;\n",
                 "                        font-size: 18px;\n",
                 "                        color: #333;\n",
                 "                    }\n",
                 "                </style>\n",
                 "            </head>\n",
                 "            <body>\n",
                 "                <div class=\"game-box\">\n",
                 "                    <div class=\"happy-emoji\">",
                 "\\U0001f3ae",
                 "</div>\n",
                 "                    <h1 class=\"big-title\">">>
            \o h.theme
            \o <<" Math Fun!</h1>\n",
                 "                    \n",
                 "                    <div class=\"instruction\">\n",
                 "                        <strong>",
                 "\\U0001f4dd",
                 " Your Game Idea:</strong><br>\n",
                 "                        ">>
            \o h.question
            \o <<"\n",
                 "                    </div>\n",
                 "                    \n",
                 "                    <p class=\"simple-text\">",
                 "\\U0001f31f",
                 " <strong>Made for age ">>
            \o IntStr(h.age)
            \o <<"</strong> ",
                 "\\U0001f31f",
                 "</p>\n",
                 "                    \n",
                 "                    <div style=\"background: #E8F5E8; border-radius: 10px; padding: 15px; margin: 20px 0;\">\n",
                 "                        <p class=\"simple-text\" style=\"margin: 5px 0;\"><strong>",
                 "\\u2705",
                 " Easy to click</strong></p>\n",
                 "                        <p class=\"simple-text\" style=\"margin: 5px 0;\"><strong>",
                 "\\u2705",
                 " Big buttons</strong></p>\n",
                 "                        <p class=\"simple-text\" style=\"margin: 5px 0;\"><strong>",
                 "\\u2705",
                 " Happy sounds</strong></p>\n",
                 "                        <p class=\"simple-text\" style=\"margin: 5px 0;\"><strong>",
                 "\\u2705",
                 " No time pressure</strong></p>\n",
                 "                    </div>\n",
                 "                    \n",
                 "                    <button class=\"big-button\" onclick=\"startDemo()\">",
                 "\\U0001f680",
                 " Try Demo</button>\n",
                 "                    <button class=\"big-button\" onclick=\"showHelp()\" style=\"background: #2196F3;\">",
                 "\\u2753",
                 " How to Play</button>\n",
                 "                    \n",
                 "                    <div id=\"demo-area\" style=\"display: none; margin-top: 30px; padding: 20px; background: #F0F8FF; border-radius: 15px;\">\n",
                 "                        <div class=\"happy-emoji\">",
                 "\\U0001f60a",
                 "</div>\n",
                 "                        <h3 style=\"color: #333;\">Demo Time!</h3>\n",
                 "                        <p class=\"simple-text\">Click the buttons to hear sounds!</p>\n",
                 "                        <button onclick=\"playHappySound()\" style=\"padding: 15px 25px; margin: 10px; font-size: 16px; border: none; background: #FF9800; color: white; border-radius: 10px; cursor: pointer;\">",
                 "\\U0001f3b5",
                 " Happy Sound</button>\n",
                 "                        <button onclick=\"playSuccessSound()\" style=\"padding: 15px 25px; margin: 10px; font-size: 16px; border: none; background: #4CAF50; color: white; border-radius: 10px; cursor: pointer;\">",
                 "\\U0001f389",
                 " Success Sound</button>\n",
                 "                    </div>\n",
                 "                    \n",
                 "                    <script>\n",
                 "                        function startDemo() {\n",
                 "                            const demo = document.getElementById('demo-area');\n",
                 "                            demo.style.display = demo.style.display === 'none' ? 'block' : 'none';\n",
                 "                            playHappySound();\n",
                 "                        }\n",
                 "                        \n",
                 "                        function showHelp() {\n",
                 "                            alert('",
                 "\\ufffd",
                 " How to Play:\\n\\n1. Read the question\\n2. Click your answer\\n3. Get happy sounds for correct answers\\n4. Try again if wrong - no problem!\\n5. Have fun learning math!');\n",
                 "                            playSuccessSound();\n",
                 "                        }\n",
                 "                        \n",
                 "                        function playHappySound() {\n",
                 "                            try {\n",
                 "                                const audioContext = new (window.AudioContext || window.webkitAudioContext)();\n",
                 "                                const oscillator = audioContext.createOscillator();\n",
                 "                                const gainNode = audioContext.createGain();\n",
                 "                                \n",
                 "                                oscillator.connect(gainNode);\n",
                 "                                gainNode.connect(audioContext.destination);\n",
                 "                                \n",
                 "                                // Happy sound - ascending notes\n",
                 "                                oscillator.frequency.setValueAtTime(523, audioContext.currentTime);      // C\n",
                 "                                oscillator.frequency.setValueAtTime(659, audioContext.currentTime + 0.15); // E\n",
                 "                                oscillator.frequency.setValueAtTime(784, audioContext.currentTime + 0.3);  // G\n",
                 "                                gainNode.gain.setValueAtTime(0.3, audioContext.currentTime);\n",
                 "                                gainNode.gain.exponentialRampToValueAtTime(0.01, audioContext.currentTime + 0.5);\n",
                 "                                oscillator.start(audioContext.currentTime);\n",
                 "                                oscillator.stop(audioContext.currentTime + 0.5);\n",
                 "                            } catch(e) {\n",
                 "                                console.log('Audio not supported');\n",
                 "                            }\n",
                 "                        }\n",
                 "                        \n",
                 "                        function playSuccessSound() {\n",
                 "                            try {\n",
                 "                                const audioContext = new (window.AudioContext || window.webkitAudioContext)();\n",
                 "                                const oscillator = audioContext.createOscillator();\n",
                 "                                const gainNode = audioContext.createGain();\n",
                 "                                \n",
                 "                                oscillator.connect(gainNode);\n",
                 "                                gainNode.connect(audioContext.destination);\n",
                 "                                \n",
                 "                                // Success fanfare\n",
                 "                                oscillator.frequency.setValueAtTime(800, audioContext.currentTime);\n",
                 "                                oscillator.frequency.setValueAtTime(1000, audioContext.currentTime + 0.1);\n",
                 "                                oscillator.frequency.setValueAtTime(1200, audioContext.currentTime + 0.2);\n",
                 "                                gainNode.gain.setValueAtTime(0.2, audioContext.currentTime);\n",
                 "                                gainNode.gain.exponentialRampToValueAtTime(0.01, audioContext.currentTime + 0.4);\n",
                 "                                oscillator.start(audioContext.currentTime);\n",
                 "                                oscillator.stop(audioContext.currentTime + 0.4);\n",
                 "                            } catch(e) {\n",
                 "                                console.log('Audio not supported');\n",
                 "                            }\n",
                 "                        }\n",
                 "                    </script>\n",
                 "                </div>\n",
                 "            </body>\n",
                 "            </html>\n",
                 "            ">>

\* pieces of the text a model answers with
ResponsePieces == { <<"a">>, <<" ">>, <<"\n">>, OpenThink, CloseThink, SpanPiece }

\* nobody has called clean_reasoning_output
CleanerIdle ==
    /\ parts = <<>>
    /\ input = Unset
    /\ pc = "idle"
    /\ text = Unset
    /\ lines = <<>>
    /\ i = 0
    /\ formatted_lines = <<>>
    /\ result = Unset

\* the module is imported under some environment; no request yet
InitClient ==
    /\ \E l \in LocalSettings, g \in Tokens :
          environ = [USE_LOCAL_LLM |-> l, GITHUB_TOKEN |-> g]
    /\ NoRequest
    /\ StoreUnused
    /\ running = "main"
    /\ suspended = EmptyDict
    /\ CleanerIdle

\* a handler is entered with its arguments
Handle(name, q, t, a) ==
    /\ handler.at = "idle"
    /\ handler' = [name |-> name, at |-> "entered", question |-> q, theme |-> t,
                   age |-> a, value |-> Unset]
    /\ UNCHANGED <<cleaner, running, suspended, environ, client, response,
                   _sessions, calls, ret, requests>>

\* `if MOCK: return ...`
ReturnCanned ==
    /\ handler.at = "entered"
    /\ MOCK
    /\ handler' = [handler EXCEPT !.at = "returned", !.value = Canned(handler)]
    /\ UNCHANGED <<cleaner, running, suspended, environ, client, response,
                   _sessions, calls, ret, requests>>

\* `if USE_LOCAL_LLM: ... await call_ollama(...)`, up to the POST of line 129
CallOllama ==
    /\ handler.at = "entered"
    /\ ~MOCK
    /\ USE_LOCAL_LLM
    /\ handler' = [handler EXCEPT !.at = "awaiting"]
    /\ client' = [NoClient EXCEPT !.fn = "call_ollama", !.at = "posted"]
    /\ UNCHANGED <<cleaner, running, suspended, environ, response, _sessions, calls, ret, requests>>

\* `else: ... await call_github_model(...)`, up to the POST of line 159
CallGithubModel ==
    /\ handler.at = "entered"
    /\ ~MOCK
    /\ ~USE_LOCAL_LLM
    /\ handler' = [handler EXCEPT !.at = "awaiting"]
    /\ client' = [NoClient EXCEPT !.fn = "call_github_model", !.at = "posted"]
    /\ UNCHANGED <<cleaner, running, suspended, environ, response, _sessions, calls, ret, requests>>

\* the POST, raise_for_status, the JSON or the lookup raises: lines 138-140, 168-170
PostFails ==
    /\ client.at = "posted"
    /\ client' = [client EXCEPT !.at = "raised"]
    /\ UNCHANGED <<cleaner, running, suspended, environ, handler, response,
                   _sessions, calls, ret, requests>>

\* the model answers with text: lines 129-132, 159-162
PostAnswers(ps) ==
    /\ client.at = "posted"
    /\ parts' = ps
    /\ client' = [client EXCEPT !.at = "stripped", !.raw_response = Strip(Flatten(ps))]
    /\ UNCHANGED <<input, pc, text, lines, i, formatted_lines, result>>
    /\ UNCHANGED <<running, suspended, environ, handler, response, _sessions, calls, ret, requests>>

\* the client returns raw_response as it is
SkipCleaning ==
    /\ client.at = "stripped"
    /\ client' = [client EXCEPT !.at = "returned",
                                !.cleaned_response = client.raw_response]
    /\ UNCHANGED <<cleaner, running, suspended, environ, handler, response,
                   _sessions, calls, ret, requests>>

\* lines 135, 165: clean_reasoning_output(raw_response) is called
CleanResponse ==
    /\ client.at = "stripped"
    /\ client' = [client EXCEPT !.at = "cleaning", !.cleanings = client.cleanings + 1]
    /\ input' = client.raw_response
    /\ text' = client.raw_response
    /\ pc' = "call"
    /\ lines' = <<>>
    /\ i' = 0
    /\ formatted_lines' = <<>>
    /\ result' = Unset
    /\ UNCHANGED <<parts, running, suspended, environ, handler, response,
                   _sessions, calls, ret, requests>>

\* lines 135-136, 165-166: the call has returned, `return cleaned_response`
ClientReturn ==
    /\ client.at = "cleaning"
    /\ pc = "done"
    /\ client' = [client EXCEPT !.at = "returned", !.cleaned_response = result]
    /\ UNCHANGED <<cleaner, running, suspended, environ, handler, response,
                   _sessions, calls, ret, requests>>

\* `return await call_...(...)`: the handler hands on what the client returned
HandlerReceive ==
    /\ handler.at = "awaiting"
    /\ client.at = "returned"
    /\ handler' = [handler EXCEPT !.at = "returned", !.value = client.cleaned_response]
    /\ UNCHANGED <<cleaner, running, suspended, environ, client, response,
                   _sessions, calls, ret, requests>>

\* `except Exception` around call_github_model: the fallback text
HandlerFallback ==
    /\ handler.at = "awaiting"
    /\ client.at = "raised"
    /\ client.fn = "call_github_model"
    /\ handler.name \in Guarded
    /\ handler' = [handler EXCEPT !.at = "returned", !.value = Fallback(handler)]
    /\ UNCHANGED <<cleaner, running, suspended, environ, client, response,
                   _sessions, calls, ret, requests>>

\* no try/except around the call: the client's exception leaves the handler
HandlerRaise ==
    /\ handler.at = "awaiting"
    /\ client.at = "raised"
    /\ ~(client.fn = "call_github_model" /\ handler.name \in Guarded)
    /\ handler' = [handler EXCEPT !.at = "raised"]
    /\ UNCHANGED <<cleaner, running, suspended, environ, client, response,
                   _sessions, calls, ret, requests>>

\* main.py 56-59: `return {"rewritten": result}`
RewriteResponds ==
    /\ handler.name = "rewrite_question"
    /\ handler.at = "returned"
    /\ response.status = 0
    /\ response' = [status |-> 200, body |-> [rewritten |-> handler.value]]
    /\ UNCHANGED <<cleaner, running, suspended, environ, handler, client,
                   _sessions, calls, ret, requests>>

\* main.py 58: the exception of rewrite_question leaves the endpoint
RewriteFails ==
    /\ handler.name = "rewrite_question"
    /\ handler.at = "raised"
    /\ response.status = 0
    /\ response' = [status |-> 500, body |-> [detail |-> <<"Internal Server Error">>]]
    /\ UNCHANGED <<cleaner, running, suspended, environ, handler, client,
                   _sessions, calls, ret, requests>>

NextClient ==
    \/ \E name \in HandlerNames, q \in Questions, t \in Themes, a \in Ages :
          Handle(name, q, t, a)
    \/ ReturnCanned
    \/ CallOllama
    \/ CallGithubModel
    \/ PostFails
    \/ \E ps \in SeqsUpTo(ResponsePieces, MaxResponse) : PostAnswers(ps)
    \/ CleanResponse
    \/ Next
    \/ ClientReturn
    \/ HandlerReceive
    \/ HandlerFallback
    \/ HandlerRaise
    \/ RewriteResponds
    \/ RewriteFails

SpecClient == InitClient /\ [][NextClient]_vars

\* ---------------------------------------------------- quiz storage
\* the quiz ids in use
QuizIds == {"q1", "q2"}

\* QuizSession.score: None until calculate_score ran, then an int
NoScore == [is |-> "None"]
IntScore(n) == [is |-> "int", value |-> n]

\* QuizSession.__init__ (question_parser.py 126-133); a dict is written as the
\* sequence of its items where their order shows (user_answers)
QuizSession(quiz_id, questions, theme, age) ==
    [quiz_id |-> quiz_id, questions |-> questions, theme |-> theme, age |-> age,
     user_answers |-> <<>>, score |-> NoScore, feedback |-> <<>>]

\* the sessions handed to the store: two different ones for each id
SessionsTried == {QuizSession(k, EmptyDict, t, 10) : k \in QuizIds, t \in Themes}

\* the global instance of line 39, fresh
InitStorage ==
    /\ StoreUnused
    /\ NoRequest
    /\ environ = NoEnviron
    /\ running = "main"
    /\ suspended = EmptyDict
    /\ CleanerIdle

\* lines 16-18
store_session(session) ==
    /\ Len(calls) < MaxCalls
    /\ _sessions' = [k \in DOMAIN _sessions \cup {session.quiz_id} |->
                        IF k = session.quiz_id THEN session ELSE _sessions[k]]
    /\ ret' = ReturnedNone
    /\ calls' = Append(calls, [op |-> "store_session", quiz_id |-> session.quiz_id,
                               session |-> session])
    /\ UNCHANGED <<cleaner, running, suspended, environ, handler, client, response,
                   requests>>

\* lines 20-22: dict.get
get_session(quiz_id) ==
    /\ Len(calls) < MaxCalls
    /\ ret' = IF quiz_id \in DOMAIN _sessions
              THEN ReturnedSession(_sessions[quiz_id]) ELSE ReturnedNone
    /\ calls' = Append(calls, [op |-> "get_session", quiz_id |-> quiz_id])
    /\ UNCHANGED <<cleaner, running, suspended, environ, handler, client, response,
                   _sessions, requests>>

\* `del self._sessions[quiz_id]` without the test of line 26
delete_session_unchecked(quiz_id) ==
    /\ Len(calls) < MaxCalls
    /\ _sessions' = [k \in DOMAIN _sessions \ {quiz_id} |-> _sessions[k]]
    /\ ret' = IF quiz_id \in DOMAIN _sessions THEN ReturnedNone ELSE RaisedKeyError
    /\ calls' = Append(calls, [op |-> "delete_session", quiz_id |-> quiz_id])
    /\ UNCHANGED <<cleaner, running, suspended, environ, handler, client, response,
                   requests>>

\* lines 24-27
delete_session(quiz_id) ==
    /\ Len(calls) < MaxCalls
    /\ _sessions' = IF quiz_id \in DOMAIN _sessions
                    THEN [k \in DOMAIN _sessions \ {quiz_id} |-> _sessions[k]]
                    ELSE _sessions
    /\ ret' = ReturnedNone
    /\ calls' = Append(calls, [op |-> "delete_session", quiz_id |-> quiz_id])
    /\ UNCHANGED <<cleaner, running, suspended, environ, handler, client, response,
                   requests>>

\* lines 29-31: a copy of the dict
list_sessions ==
    /\ Len(calls) < MaxCalls
    /\ ret' = ReturnedDict(_sessions)
    /\ calls' = Append(calls, [op |-> "list_sessions"])
    /\ UNCHANGED <<cleaner, running, suspended, environ, handler, client, response,
                   _sessions, requests>>

\* lines 33-35
clear_all ==
    /\ Len(calls) < MaxCalls
    /\ _sessions' = EmptyDict
    /\ ret' = ReturnedNone
    /\ calls' = Append(calls, [op |-> "clear_all"])
    /\ UNCHANGED <<cleaner, running, suspended, environ, handler, client, response,
                   requests>>

NextStorage ==
    \/ \E session \in SessionsTried : store_session(session)
    \/ \E quiz_id \in QuizIds : get_session(quiz_id)
    \/ \E quiz_id \in QuizIds : delete_session(quiz_id)
    \/ list_sessions
    \/ clear_all

SpecStorage == InitStorage /\ [][NextStorage]_vars

\* ---------------------------------------------------- quiz sessions
\* word in text
Contains(txt, word) ==
    \E p \in 1..(Len(txt) - Len(word) + 1) : SubSeq(txt, p, p + Len(word) - 1) = word

\* any(word in text for word in words)
AnyWord(txt, words) == \E word \in words : Contains(txt, word)

\* the branches of Question._infer_topic (question_parser.py 28-41); two
\* of the words of the source are not the signs they were meant to be
TopicOf(text_lower) ==
    IF AnyWord(text_lower,
               { <<"+">>,
                 <<"a", "d", "d">>,
                 <<"p", "l", "u", "s">>,
                 <<"s", "u", "m">>,
                 <<"t", "o", "t", "a", "l">>,
                 <<"a", "l", "t", "o", "g", "e", "t", "h", "e", "r">> })
    THEN <<"addition">>
    ELSE IF AnyWord(text_lower,
               { <<"-">>,
                 <<"s", "u", "b", "t", "r", "a", "c", "t">>,
                 <<"m", "i", "n", "u", "s">>,
                 <<"t", "a", "k", "e", " ", "a", "w", "a", "y">>,
                 <<"l", "e", "f", "t">>,
                 <<"r", "e", "m", "a", "i", "n">> })
    THEN <<"subtraction">>
    ELSE IF AnyWord(text_lower,
               { <<"\\u0e23", "">>,
                 <<"*">>,
                 <<"m", "u", "l", "t", "i", "p", "l", "y">>,
                 <<"t", "i", "m", "e", "s">>,
                 <<"p", "r", "o", "d", "u", "c", "t">> })
    THEN <<"multiplication">>
    ELSE IF AnyWord(text_lower,
               { <<"\\u0e23", "\\u0e17">>,
                 <<"/">>,
                 <<"d", "i", "v", "i", "d", "e">>,
                 <<"s", "p", "l", "i", "t">>,
                 <<"s", "h", "a", "r", "e">> })
    THEN <<"division">>
    ELSE IF AnyWord(text_lower,
               { <<"f", "r", "a", "c", "t", "i", "o", "n">>,
                 <<"h", "a", "l", "f">>,
                 <<"q", "u", "a", "r", "t", "e", "r">>,
                 <<"t", "h", "i", "r", "d">> })
    THEN <<"fractions">>
    ELSE IF AnyWord(text_lower,
               { <<"p", "e", "r", "c", "e", "n", "t">>,
                 <<"%">>,
                 <<"p", "e", "r", "c", "e", "n", "t", "a", "g", "e">> })
    THEN <<"percentages">>
    ELSE <<"arithmetic">>

\* Question._infer_topic (question_parser.py 24-41)
_infer_topic(original_text) == TopicOf(lower(original_text))

\* question_parser.py 16-22 on the text without its outer blanks
QuestionOf(original_text, question_id) ==
    [id |-> question_id, original_text |-> original_text, rewritten_text |-> None,
     correct_answer |-> None, explanation |-> None, theme |-> None,
     difficulty |-> <<"medium">>, topic |-> _infer_topic(original_text)]

\* Question.__init__ (question_parser.py 14-22), with the fields the
\* upload fills in later
Question(txt, question_id) == QuestionOf(Strip(txt), question_id)

\* a dict that keeps the order of insertion: a sequence of items with
\* distinct keys; d.get(key) for a key that is there
HasKey(d, key) == \E p \in 1..Len(d) : d[p].question_id = key
ValueAt(d, key) == d[CHOOSE p \in 1..Len(d) : d[p].question_id = key].answer

\* str(x)
Str_(x) == IF x = None THEN <<"N", "o", "n", "e">> ELSE x

\* float(s) succeeds: the grammar CPython reads after the strip() and
\* lower() of lines 316-317. Digits may be grouped by '_', each '_' between
\* two digits; then an optional sign and either inf, infinity, nan or a
\* decimal numeral: digits with at most one '.', at least one digit, and
\* an optional exponent e, its optional sign and its digits
IsFloatLiteral(s) ==
    LET grouped  == \A p \in 1..Len(s) :
                        s[p] = "_" => /\ 1 < p /\ p < Len(s)
                                      /\ IsDigit(s[p - 1]) /\ IsDigit(s[p + 1])
        t        == SelectSeq(s, LAMBDA c : c # "_")
        Signed(u) == u # <<>> /\ u[1] \in {"+", "-"}
        r        == IF Signed(t) THEN Tail(t) ELSE t
        es       == {p \in 1..Len(r) : r[p] = "e"}
        mantissa == IF es = {} THEN r ELSE SubSeq(r, 1, Min(es) - 1)
        exponent == IF es = {} THEN <<>> ELSE SubSeq(r, Min(es) + 1, Len(r))
        expdigits == IF Signed(exponent) THEN Tail(exponent) ELSE exponent
    IN  /\ grouped
        /\ \/ r \in { <<"i", "n", "f">>, <<"n", "a", "n">>,
                       <<"i", "n", "f", "i", "n", "i", "t", "y">> }
           \/ /\ \A p \in 1..Len(mantissa) : IsDigit(mantissa[p]) \/ mantissa[p] = "."
              /\ Cardinality({p \in 1..Len(mantissa) : mantissa[p] = "."}) <= 1
              /\ \E p \in 1..Len(mantissa) : IsDigit(mantissa[p])
              /\ es # {} => /\ expdigits # <<>>
                            /\ \A p \in 1..Len(expdigits) : IsDigit(expdigits[p])

\* a natural number of any size, as CPython's float() and the double it
\* returns need them: the limbs of the number to the base Limb, the least
\* first, the highest not zero; <<>> is zero. A loop over the limbs is
\* written by halves, Run[lo, hi, carry] doing the limbs lo..hi: the front
\* half, then the back half with the carry of the front
LimbBits == 15
Limb == 2 ^ LimbBits
Limbs == Seq(0..(Limb - 1))

\* the limbs without the zeros at the high end
BigTrim(a) ==
    LET used == {p \in 1..Len(a) : a[p] # 0}
    IN  IF used = {} THEN <<>> ELSE SubSeq(a, 1, Max(used))

\* a * k + c for 0 < k < Limb, 0 <= c < Limb
BigMulAdd(a, k, c) ==
    LET Run[lo \in 1..Len(a), hi \in 1..Len(a), carry \in 0..Limb] ==
            IF lo = hi
            THEN LET v == a[lo] * k + carry
                 IN  [out |-> <<v % Limb>>, carry |-> v \div Limb]
            ELSE LET front == Run[lo, (lo + hi) \div 2, carry]
                     back  == Run[(lo + hi) \div 2 + 1, hi, front.carry]
                 IN  [out |-> front.out \o back.out, carry |-> back.carry]
    IN  IF a = <<>> THEN (IF c = 0 THEN <<>> ELSE <<c>>)
        ELSE LET all == Run[1, Len(a), c]
             IN  IF all.carry = 0 THEN all.out ELSE Append(all.out, all.carry)

\* a // k and a % k for 0 < k < Limb; the high limbs first
BigDivMod(a, k) ==
    LET Run[lo \in 1..Len(a), hi \in 1..Len(a), r \in 0..Limb] ==
            IF lo = hi
            THEN LET v == r * Limb + a[lo]
                 IN  [q |-> <<v \div k>>, r |-> v % k]
            ELSE LET front == Run[(lo + hi) \div 2 + 1, hi, r]
                     back  == Run[lo, (lo + hi) \div 2, front.r]
                 IN  [q |-> back.q \o front.q, r |-> back.r]
    IN  IF a = <<>> THEN [q |-> <<>>, r |-> 0]
        ELSE LET all == Run[1, Len(a), 0]
             IN  [q |-> BigTrim(all.q), r |-> all.r]

\* a << n
BigShiftLeft(a, n) ==
    IF a = <<>> THEN <<>>
    ELSE [p \in 1..(n \div LimbBits) |-> 0] \o BigMulAdd(a, 2 ^ (n % LimbBits), 0)

\* a >> n, and whether a bit that fell off was set
BigShiftRight(a, n) ==
    LET gone == Min({n \div LimbBits, Len(a)})
        rest == BigDivMod(SubSeq(a, gone + 1, Len(a)), 2 ^ (n % LimbBits))
    IN  [q |-> rest.q,
         sticky |-> rest.r # 0 \/ \E p \in 1..gone : a[p] # 0]

\* int.bit_length()
BigBits(a) ==
    IF a = <<>> THEN 0
    ELSE LimbBits * (Len(a) - 1)
            + (CHOOSE b \in 1..LimbBits : 2 ^ (b - 1) <= a[Len(a)] /\ a[Len(a)] < 2 ^ b)

\* a <= b
BigLeq(a, b) ==
    IF Len(a) # Len(b) THEN Len(a) < Len(b)
    ELSE LET differ == {p \in 1..Len(a) : a[p] # b[p]}
         IN  differ = {} \/ a[Max(differ)] < b[Max(differ)]

\* a + b when add, a - b for a >= b otherwise
BigSum(a, b, add) ==
    LET n == Max({Len(a), Len(b)})
        At(x, p) == IF p <= Len(x) THEN x[p] ELSE 0
        Run[lo \in 1..n, hi \in 1..n, carry \in {0 - 1, 0, 1}] ==
            IF lo = hi
            THEN LET v == IF add THEN At(a, lo) + At(b, lo) + carry
                          ELSE At(a, lo) - At(b, lo) + carry
                 IN  [out |-> <<v % Limb>>,
                      carry |-> IF v < 0 THEN 0 - 1 ELSE v \div Limb]
            ELSE LET front == Run[lo, (lo + hi) \div 2, carry]
                     back  == Run[(lo + hi) \div 2 + 1, hi, front.carry]
                 IN  [out |-> front.out \o back.out, carry |-> back.carry]
    IN  IF n = 0 THEN <<>>
        ELSE LET all == Run[1, n, 0]
             IN  BigTrim(IF all.carry = 1 THEN Append(all.out, 1) ELSE all.out)

\* float(s) for a text IsFloatLiteral accepts is the IEEE 754 double
\* nearest to the numeral, ties to the even mantissa: value m * 2^e with m
\* below 2^53 and e not below -1074, inf from 2^1024 on. It is worked out
\* in steps, each an operator that hands what it found to the next

\* the value of a decimal digit
DigitValue(c) ==
    CHOOSE v \in 0..9 : <<"0", "1", "2", "3", "4", "5", "6", "7", "8", "9">>[v + 1] = c

\* the digits among the characters, from the first that is not zero
FloatDigits(u) ==
    LET d  == SelectSeq(u, IsDigit)
        nz == {p \in 1..Len(d) : d[p] # "0"}
    IN  IF nz = {} THEN <<>> ELSE SubSeq(d, Min(nz), Len(d))

\* the number the digits spell
FloatRead(digits) ==
    LET Run[lo \in 1..Len(digits), hi \in 1..Len(digits), acc \in Limbs] ==
            IF lo = hi THEN BigMulAdd(acc, 10, DigitValue(digits[lo]))
            ELSE Run[(lo + hi) \div 2 + 1, hi, Run[lo, (lo + hi) \div 2, acc]]
    IN  IF digits = <<>> THEN <<>> ELSE Run[1, Len(digits), <<>>]

\* the number the digits of the exponent spell; more than six digits
\* decide the result by the sign alone
FloatSmall(expdigs, much) ==
    LET Run[k \in 0..Len(expdigs)] ==
            IF k = 0 THEN 0 ELSE 10 * Run[k - 1] + DigitValue(expdigs[k])
    IN  IF Len(expdigs) > 6 THEN much ELSE Run[Len(expdigs)]

\* the power of ten the digits of the mantissa are to be taken with: the
\* exponent less the digits behind the point
FloatExp10(mantissa, exponent) ==
    LET dot == {p \in 1..Len(mantissa) : mantissa[p] = "."}
    IN  (IF exponent # <<>> /\ exponent[1] = "-" THEN 0 - 1 ELSE 1)
                * FloatSmall(FloatDigits(exponent), 1000000 + Len(mantissa))
            - (IF dot = {} THEN 0 ELSE Len(mantissa) - Min(dot))

\* ten to the power, four digits at a time: the factor of step k of
\* (power + 3) \div 4 steps
FloatTen(power, k) == 10 ^ (IF k = 1 THEN power - 4 * ((power + 3) \div 4 - 1) ELSE 4)

\* a * 10^power for a power above zero, a otherwise
FloatTimesTen(a, power) ==
    LET Run[lo \in 1..((power + 3) \div 4), hi \in 1..((power + 3) \div 4),
            acc \in Limbs] ==
            IF lo = hi THEN BigMulAdd(acc, FloatTen(power, lo), 0)
            ELSE Run[(lo + hi) \div 2 + 1, hi, Run[lo, (lo + hi) \div 2, acc]]
    IN  IF power <= 0 THEN a ELSE Run[1, (power + 3) \div 4, a]

\* a division done, and whether it or one before it left a remainder
FloatSticky(acc, dm) == [q |-> dm.q, sticky |-> acc.sticky \/ dm.r # 0]

\* a // 10^power for a power above zero, a otherwise, and whether a
\* division left a remainder
FloatOverTen(a, power) ==
    LET Run[lo \in 1..((power + 3) \div 4), hi \in 1..((power + 3) \div 4),
            acc \in [q : Limbs, sticky : BOOLEAN]] ==
            IF lo = hi THEN FloatSticky(acc, BigDivMod(acc.q, FloatTen(power, lo)))
            ELSE Run[(lo + hi) \div 2 + 1, hi, Run[lo, (lo + hi) \div 2, acc]]
    IN  IF power <= 0 THEN [q |-> a, sticky |-> FALSE]
        ELSE Run[1, (power + 3) \div 4, [q |-> a, sticky |-> FALSE]]

FloatInf(neg)  == [kind |-> "inf", neg |-> neg, m |-> <<>>, e |-> 0]
FloatZero(neg) == [kind |-> "finite", neg |-> neg, m |-> <<>>, e |-> 0]

\* from 2^1024 on the double is inf
FloatFinite(neg, m, e) ==
    IF BigBits(m) + e > 1024 THEN FloatInf(neg)
    ELSE [kind |-> "finite", neg |-> neg, m |-> m, e |-> e]

\* half: the bit below the mantissa is set; a tie goes to the even mantissa
FloatHalfEven(neg, half, sticky, down, e) ==
    FloatFinite(neg, IF half /\ (sticky \/ (down # <<>> /\ down[1] % 2 = 1))
                     THEN BigSum(down, <<1>>, TRUE) ELSE down, e)

\* kept: the mantissa and the bit below it
FloatKept(neg, kept, sticky, e) ==
    FloatHalfEven(neg, kept.q # <<>> /\ kept.q[1] % 2 = 1, kept.sticky \/ sticky,
                  BigDivMod(kept.q, 2).q, e)

\* the double nearest to q / 2^scale, q a little short when sticky: 53
\* bits of mantissa, the exponent not below -1074
FloatRounded(neg, scaled, scale) ==
    LET e == Max({BigBits(scaled.q) - 53 - scale, 0 - 1074})
    IN  FloatKept(neg, BigShiftRight(scaled.q, e + scale - 1), scaled.sticky, e)

\* the digits times ten to exp10, and as many bits behind the point as
\* the division needs
FloatScaled(neg, n, exp10, scale) ==
    FloatRounded(neg, FloatOverTen(BigShiftLeft(FloatTimesTen(n, exp10), scale),
                                   0 - exp10),
                 scale)

FloatPlaced(neg, digits, exp10) ==
    IF digits = <<>> THEN FloatZero(neg)
    ELSE IF exp10 + Len(digits) > 309 THEN FloatInf(neg)
    ELSE IF exp10 + Len(digits) < 0 - 323 THEN FloatZero(neg)
    ELSE FloatScaled(neg, FloatRead(digits), exp10,
                     56 + 4 * (IF exp10 < 0 THEN 0 - exp10 ELSE 0))

FloatDecimal(neg, mantissa, exponent) ==
    FloatPlaced(neg, FloatDigits(mantissa), FloatExp10(mantissa, exponent))

\* the text behind the sign: nan, inf, or a mantissa and, behind an e, an
\* exponent
FloatUnsigned(neg, r) ==
    LET es == {p \in 1..Len(r) : r[p] = "e"}
    IN  IF r = <<"n", "a", "n">>
        THEN [kind |-> "nan", neg |-> neg, m |-> <<>>, e |-> 0]
        ELSE IF r \in { <<"i", "n", "f">>, <<"i", "n", "f", "i", "n", "i", "t", "y">> }
        THEN FloatInf(neg)
        ELSE FloatDecimal(neg, IF es = {} THEN r ELSE SubSeq(r, 1, Min(es) - 1),
                               IF es = {} THEN <<>> ELSE SubSeq(r, Min(es) + 1, Len(r)))

\* float(...) of lines 321-322; the text is without outer blanks and in
\* lower case there, and '_' between digits only groups them
float(s) ==
    LET t == SelectSeq(s, LAMBDA c : c # "_")
    IN  FloatUnsigned(t[1] = "-", IF t[1] \in {"+", "-"} THEN Tail(t) ELSE t)

\* the tolerance of line 324
Tolerance == float(<<"0", ".", "0", "1">>)

\* abs(user_num - correct_num) < 0.01 on doubles. A nan or an inf on either
\* side gives nan or inf, never below the tolerance. The difference of two
\* finite doubles is rounded to the nearest double, ties to the even
\* mantissa: with the tolerance m * 2^e it comes out below the tolerance
\* when the exact difference is below (2m - 1) * 2^(e - 1), the middle
\* between the tolerance and the double before it, or is that middle and
\* m is odd

NumbersClose(a, b) ==
    /\ a.kind = "finite"
    /\ b.kind = "finite"
    /\ \E t \in {Tolerance}, low \in {Min({a.e, b.e})} :
       \* both mantissas as multiples of 2^low
       \E wide_a \in {BigShiftLeft(a.m, a.e - low)},
          wide_b \in {BigShiftLeft(b.m, b.e - low)},
          floor \in {Min({low, t.e - 1})},
          middle \in {BigSum(BigShiftLeft(t.m, 1), <<1>>, FALSE)} :
       \* the smaller from the larger, or their sum when the signs differ
       \E first \in {a.neg # b.neg \/ BigLeq(wide_b, wide_a)} :
       \E diff \in {BigSum(IF first THEN wide_a ELSE wide_b,
                           IF first THEN wide_b ELSE wide_a, a.neg # b.neg)} :
       \* the difference and the middle as multiples of 2^floor
       \E left \in {BigShiftLeft(diff, low - floor)},
          right \in {BigShiftLeft(middle, t.e - 1 - floor)} :
          BigLeq(left, right) /\ (t.m[1] % 2 = 1 \/ left # right)

\* check_answer (llm.py 312-331)
check_answer(user_answer, correct_answer) ==
    \E user_clean \in {lower(Strip(Str_(user_answer)))},
       correct_clean \in {lower(Strip(Str_(correct_answer)))} :
        IF IsFloatLiteral(user_clean) /\ IsFloatLiteral(correct_clean)
        THEN \E user_num \in {float(user_clean)}, correct_num \in {float(correct_clean)} :
                NumbersClose(user_num, correct_num)
        ELSE user_clean = correct_clean

\* the texts the specifications compare: the answers given and the correct
\* answers stored
Compared == { <<"4">>, <<"4", ".", "0">>, <<"5">>, <<"X", " ">>, <<"x">>, None }

\* the pairs of those texts that check_answer accepts, worked out once
Accepted ==
    UNION { IF check_answer(p[1], p[2]) THEN {p} ELSE {} : p \in Compared \X Compared }

\* llm.check_answer(user_answer, correct_answer) where the session and
\* main.py call it
CheckedAnswer(user_answer, correct_answer) ==
    IF user_answer \in Compared /\ correct_answer \in Compared
    THEN <<user_answer, correct_answer>> \in Accepted
    ELSE check_answer(user_answer, correct_answer)

\* an answer that replaces the answers given before
add_answer_alone(session, question_id, answer) ==
    [session EXCEPT !.user_answers = <<[question_id |-> question_id, answer |-> answer]>>]

\* QuizSession.add_answer (question_parser.py 135-137): a key that is
\* there keeps its place in the dict
add_answer(session, question_id, answer) ==
    LET d == session.user_answers
        item == [question_id |-> question_id, answer |-> answer]
    IN  [session EXCEPT !.user_answers =
            IF HasKey(d, question_id)
            THEN [p \in 1..Len(d) |-> IF d[p].question_id = question_id THEN item ELSE d[p]]
            ELSE Append(d, item)]

\* the test of lines 158 and 171: the question is there and has a
\* correct answer
Scorable(session, question_id) ==
    /\ question_id \in DOMAIN session.questions
    /\ ~IsFalsy(session.questions[question_id].correct_answer)

\* the items of user_answers that calculate_score counts, in order
CorrectItems(session) ==
    LET Test(item) ==
            /\ Scorable(session, item.question_id)
            /\ CheckedAnswer(item.answer, session.questions[item.question_id].correct_answer)
    IN  SelectSeq(session.user_answers, Test)

\* QuizSession.calculate_score (question_parser.py 154-165): the value
\* returned; the caller stores it in session.score
calculate_score(session) == Len(CorrectItems(session))

\* the wrong questions without the test of line 171
get_wrong_questions_unguarded(session) ==
    LET Test(item) ==
            ~(/\ Scorable(session, item.question_id)
              /\ CheckedAnswer(item.answer,
                              session.questions[item.question_id].correct_answer))
        wrong == SelectSeq(session.user_answers, Test)
    IN  [p \in 1..Len(wrong) |-> wrong[p].question_id]

\* QuizSession.get_wrong_questions (question_parser.py 167-176)
get_wrong_questions(session) ==
    LET Test(item) ==
            /\ Scorable(session, item.question_id)
            /\ ~CheckedAnswer(item.answer,
                             session.questions[item.question_id].correct_answer)
        wrong == SelectSeq(session.user_answers, Test)
    IN  [p \in 1..Len(wrong) |-> wrong[p].question_id]

\* ------------------------------------------------- the quiz endpoints
\* the requests the server is sent
Requests == {"r1", "r2"}

\* the ids of the questions of the stored quiz, and one that is in no quiz
QuestionIds == {"n1", "n2", "n3", "zz"}

\* the quiz the requests are about: two questions with a correct answer
\* and, as in src/test_enhanced_quiz.py, one that was never processed
StoredQuestions ==
    [id \in {"n1", "n2", "n3"} |->
        [Question(IF id = "n1" THEN <<"2", "+", "2">> ELSE <<"x", "?">>, id)
            EXCEPT !.correct_answer =
                IF id = "n1" THEN <<"4">> ELSE IF id = "n2" THEN <<"x">> ELSE None]]

\* the answers a submission is made of
AnswersTried ==
    { [question_id |-> "n1", answer |-> <<"4", ".", "0">>],
      [question_id |-> "n1", answer |-> <<"5">>],
      [question_id |-> "n2", answer |-> <<"X", " ">>],
      [question_id |-> "zz", answer |-> <<"4">>] }

\* HTTPException(status_code, detail) as FastAPI answers it, and the
\* answer to an exception no handler caught
HTTPException(status_code, detail) == [status |-> status_code, body |-> [detail |-> detail]]
InternalServerError == [status |-> 500, body |-> [detail |-> "Internal Server Error"]]
Ok(body) == [status |-> 200, body |-> body]

\* what the model answered in live mode
LiveText == <<"Well done!">>

\* the activation of an endpoint: done with its response, or suspended
\* at its await with its local variables
Done(endpoint, request, resp) ==
    [endpoint |-> endpoint, at |-> "done", request |-> request, locals |-> [none |-> TRUE],
     response |-> resp]
Awaiting(endpoint, request, locals) ==
    [endpoint |-> endpoint, at |-> "awaiting", request |-> request, locals |-> locals,
     response |-> NoResponse]

\* the endpoints leave the cleaner, the llm handlers and the log of the
\* calls of the store alone
OnlyQuiz ==
    UNCHANGED <<cleaner, running, suspended, environ, handler, client, response, calls,
                ret>>

\* main.py 246-247: the answers of the submission, one after the other
AddAnswers(session, answers) ==
    LET Sub[k \in 0..Len(answers)] ==
            IF k = 0 THEN session
            ELSE add_answer(Sub[k - 1], answers[k].question_id, answers[k].answer)
    IN  Sub[Len(answers)]

\* a / b for ints 0 <= a and 0 < b below Limb: the double nearest to the
\* quotient
TrueDivide(a, b) ==
    IF a = 0 THEN FloatZero(FALSE)
    ELSE FloatRounded(FALSE,
                      FloatSticky([q |-> <<>>, sticky |-> FALSE],
                                  BigDivMod(BigShiftLeft(<<a>>, 5 * LimbBits), b)),
                      5 * LimbBits)

\* x * k for a double x and an int 0 < k below Limb: the double nearest
\* to the product
FloatTimes(x, k) ==
    IF x.m = <<>> THEN x
    ELSE FloatRounded(x.neg, [q |-> BigMulAdd(x.m, k, 0), sticky |-> FALSE], 0 - x.e)

\* the int 0 of the else branch of line 252
IntZero == [kind |-> "int", neg |-> FALSE, m |-> <<>>, e |-> 0]

\* main.py 252: (score / total_questions) * 100 in doubles, the division
\* first
Percentage(score, total_questions) ==
    IF total_questions > 0 THEN FloatTimes(TrueDivide(score, total_questions), 100)
    ELSE IntZero

\* main.py 250-255: the local variables at the await; calculate_score
\* has written session.score (question_parser.py 164)
LocalsOf(score, total_questions, wrong_questions) ==
    [score |-> score,
     total_questions |-> total_questions,
     percentage |-> Percentage(score, total_questions),
     wrong_questions |-> wrong_questions]

ScoredLocals(session) ==
    LocalsOf(calculate_score(session), Cardinality(DOMAIN session.questions),
             get_wrong_questions(session))

\* main.py 262-273
FeedbackEntry(answer, question, is_correct) ==
    [question_id |-> answer.question_id,
     user_answer |-> answer.answer,
     correct_answer |-> question.correct_answer,
     is_correct |-> is_correct,
     feedback |-> IF is_correct THEN <<"Great work! ", "\\u2705">>
                  ELSE <<"Let's practice this more! ", "\\u274c">>]

FeedbackOf(answer, question) ==
    FeedbackEntry(answer, question,
                  CheckedAnswer(answer.answer, question.correct_answer))

FeedbackFor(session, answers) ==
    LET Sub[k \in 0..Len(answers)] ==
            IF k = 0 THEN <<>>
            ELSE IF answers[k].question_id \in DOMAIN session.questions
                 THEN Append(Sub[k - 1],
                             FeedbackOf(answers[k],
                                        session.questions[answers[k].question_id]))
                 ELSE Sub[k - 1]
    IN  Sub[Len(answers)]

\* a score counted again after the await
ScoreWrittenFresh(session, locals) == calculate_score(session)

\* main.py 276: the local variable of line 250
ScoreWritten(session, locals) == locals.score

\* main.py 262-287: from the return of generate_encouragement on
Finished(session, submission, locals, encouragement, feedback) ==
    [session |-> [session EXCEPT !.score = IntScore(ScoreWritten(session, locals)),
                                 !.feedback = feedback],
     response |-> Ok([quiz_id |-> submission.quiz_id,
                      score |-> locals.score,
                      total |-> locals.total_questions,
                      percentage |-> locals.percentage,
                      encouragement |-> encouragement,
                      feedback |-> feedback,
                      wrong_questions |-> locals.wrong_questions])]

Finish(session, submission, locals, encouragement) ==
    Finished(session, submission, locals, encouragement,
             FeedbackFor(session, submission.answers))

\* the encouragement of mock mode (llm.py 216-217)
MockEncouragement(theme) ==
    Canned([name |-> "generate_encouragement", theme |-> theme])

Put(d, key, value) == [k \in DOMAIN d \cup {key} |-> IF k = key THEN value ELSE d[k]]

\* main.py 276-287: the session and the response of end are written
SubmitReturns(r, submission, end) ==
    /\ _sessions' = Put(_sessions, submission.quiz_id, end.session)
    /\ requests' = Put(requests, r, Done("submit_quiz", submission, end.response))

\* main.py 258-259: in mock mode generate_encouragement returns without
\* suspending; otherwise the request waits with its local variables
SubmitAwaits(r, submission, session, locals) ==
    IF MOCK
    THEN SubmitReturns(r, submission,
                       Finish(session, submission, locals,
                              MockEncouragement(session.theme)))
    ELSE /\ _sessions' = Put(_sessions, submission.quiz_id, session)
         /\ requests' = Put(requests, r, Awaiting("submit_quiz", submission, locals))

\* main.py 250-255 on the session with the answers added
SubmitScores(r, submission, added, locals) ==
    SubmitAwaits(r, submission, [added EXCEPT !.score = IntScore(locals.score)], locals)

\* submit_quiz (main.py 237-287) up to its return, its HTTPException or,
\* outside mock mode, the await of line 259
submit_quiz(r, submission) ==
    /\ r \notin DOMAIN requests
    /\ IF submission.quiz_id \notin DOMAIN _sessions
       THEN /\ requests' = Put(requests, r,
                               Done("submit_quiz", submission,
                                    HTTPException(404, "Quiz session not found")))
            /\ UNCHANGED _sessions
       ELSE \E added \in {AddAnswers(_sessions[submission.quiz_id], submission.answers)} :
                SubmitScores(r, submission, added, ScoredLocals(added))
    /\ OnlyQuiz

\* generate_encouragement returned: submit_quiz runs from line 262 to
\* its return
EncouragementReturns(r) ==
    /\ r \in DOMAIN requests
    /\ requests[r].endpoint = "submit_quiz"
    /\ requests[r].at = "awaiting"
    /\ SubmitReturns(r, requests[r].request,
                     Finish(_sessions[requests[r].request.quiz_id], requests[r].request,
                            requests[r].locals, LiveText))
    /\ OnlyQuiz

\* a failure that puts the session back as it was created
EncouragementRaisesRollback(r) ==
    /\ r \in DOMAIN requests
    /\ requests[r].endpoint = "submit_quiz"
    /\ requests[r].at = "awaiting"
    /\ requests' = Put(requests, r,
                       Done("submit_quiz", requests[r].request, InternalServerError))
    /\ _sessions' = Put(_sessions, requests[r].request.quiz_id,
                        [_sessions[requests[r].request.quiz_id]
                            EXCEPT !.user_answers = <<>>, !.score = NoScore])
    /\ OnlyQuiz

\* call_ollama or call_github_model raised (llm.py 227-234 catch
\* nothing): the exception leaves submit_quiz at line 259
EncouragementRaises(r) ==
    /\ r \in DOMAIN requests
    /\ requests[r].endpoint = "submit_quiz"
    /\ requests[r].at = "awaiting"
    /\ requests' = Put(requests, r,
                       Done("submit_quiz", requests[r].request, InternalServerError))
    /\ UNCHANGED _sessions
    /\ OnlyQuiz

\* get_explanation (main.py 290-305)
get_explanation(r, req) ==
    /\ r \notin DOMAIN requests
    /\ requests' = Put(requests, r, Done("get_explanation", req,
          IF req.quiz_id \notin DOMAIN _sessions
          THEN HTTPException(404, "Quiz session not found")
          ELSE IF req.question_id \notin DOMAIN _sessions[req.quiz_id].questions
          THEN HTTPException(404, "Question not found")
          ELSE LET question == _sessions[req.quiz_id].questions[req.question_id]
               IN  Ok([question_id |-> req.question_id,
                       explanation |-> question.explanation,
                       correct_answer |-> question.correct_answer])))
    /\ UNCHANGED _sessions
    /\ OnlyQuiz

\* main.py 315-329: the details of the wrong questions
WrongDetailsOf(session, ids) ==
    LET Sub[k \in 0..Len(ids)] ==
            IF k = 0 THEN <<>>
            ELSE IF ids[k] \in DOMAIN session.questions
                 THEN Append(Sub[k - 1],
                        [question_id |-> ids[k],
                         original_text |-> session.questions[ids[k]].original_text,
                         rewritten_text |-> session.questions[ids[k]].rewritten_text,
                         user_answer |-> ValueAt(session.user_answers, ids[k]),
                         correct_answer |-> session.questions[ids[k]].correct_answer,
                         explanation |-> session.questions[ids[k]].explanation,
                         topic |-> session.questions[ids[k]].topic])
                 ELSE Sub[k - 1]
    IN  Sub[Len(ids)]

WrongDetails(session) == WrongDetailsOf(session, get_wrong_questions(session))

\* main.py 331-335
WrongQuestionsOk(quiz_id, wrong_questions) ==
    Ok([quiz_id |-> quiz_id,
        wrong_questions |-> wrong_questions,
        total_wrong |-> Len(wrong_questions)])

\* an endpoint that answers a quiz it does not find with an empty list
wrong_questions_endpoint_lenient(r, quiz_id) ==
    /\ r \notin DOMAIN requests
    /\ requests' = Put(requests, r, Done("get_wrong_questions", [quiz_id |-> quiz_id],
          WrongQuestionsOk(quiz_id, IF quiz_id \in DOMAIN _sessions
                                    THEN WrongDetails(_sessions[quiz_id]) ELSE <<>>)))
    /\ UNCHANGED _sessions
    /\ OnlyQuiz

\* the endpoint get_wrong_questions (main.py 308-335)
wrong_questions_endpoint(r, quiz_id) ==
    /\ r \notin DOMAIN requests
    /\ requests' = Put(requests, r, Done("get_wrong_questions", [quiz_id |-> quiz_id],
          IF quiz_id \notin DOMAIN _sessions
          THEN HTTPException(404, "Quiz session not found")
          ELSE WrongQuestionsOk(quiz_id, WrongDetails(_sessions[quiz_id]))))
    /\ UNCHANGED _sessions
    /\ OnlyQuiz

\* the exception an endpoint caught, with its message
Raised(type, message) == [exception |-> type, message |-> message]

\* str(e) of what failed inside call_ollama: no connection, or an answer
\* that is not JSON
Causes == { <<"All connection attempts failed">>,
            <<"Expecting value: line 1 column 1 (char 0)">> }

\* llm.py 138-140: what call_ollama raises
LocalLLMError(cause) == Raised("Exception", <<"Local LLM error: ">> \o cause)

\* str(e) of main.py 449: the message of an Exception; the text of an
\* HTTPException is the library's, and the exception stands for it
ExceptionText(e) == IF e.exception = "Exception" THEN e.message ELSE <<e>>

\* the except clause of main.py 444-450
MinigameError(e) ==
    Ok([game_html |-> "<p>Error generating minigame</p>",
        status |-> "error",
        message |-> <<"Failed to generate minigame: ">> \o ExceptionText(e)])

\* the handler lets its own HTTPException through to the client
MinigameRejectedUncaught(detail) == HTTPException(404, detail)

\* main.py 417-418 inside the try of line 414: the HTTPException is an
\* Exception and ends in the except clause of line 444
MinigameRejected(detail) == MinigameError(Raised("HTTPException", detail))

\* main.py 438-442
MinigameSuccess(html_content) ==
    Ok([game_html |-> html_content,
        status |-> "success",
        message |-> "Minigame generated successfully!"])

\* the game prompts tried
GamePrompts == { <<"r", "a", "c", "e">> }

\* generate_minigame (main.py 411-450) up to its return or, outside mock
\* mode, the await of line 431
generate_minigame(r, req) ==
    /\ r \notin DOMAIN requests
    /\ requests' = Put(requests, r,
          IF req.quiz_id \notin DOMAIN _sessions
          THEN Done("generate_minigame", req, MinigameRejected("Quiz session not found"))
          ELSE IF MOCK
          THEN Done("generate_minigame", req,
                    MinigameSuccess(Canned([name |-> "generate_minigame_html",
                                            question |-> req.game_prompt,
                                            theme |-> req.theme])))
          ELSE Awaiting("generate_minigame", req, [none |-> TRUE]))
    /\ UNCHANGED _sessions
    /\ OnlyQuiz

\* generate_minigame_html returned the page of the model (llm.py 462-463,
\* 644)
MinigameReturns(r, html_content) ==
    /\ r \in DOMAIN requests
    /\ requests[r].endpoint = "generate_minigame"
    /\ requests[r].at = "awaiting"
    /\ requests' = Put(requests, r, Done("generate_minigame", requests[r].request,
                                         MinigameSuccess(html_content)))
    /\ UNCHANGED _sessions
    /\ OnlyQuiz

\* call_ollama raised inside generate_minigame_html (llm.py 462-463
\* catch nothing): the except clause of main.py 444 answers
MinigameRaises(r, cause) ==
    /\ r \in DOMAIN requests
    /\ requests[r].endpoint = "generate_minigame"
    /\ requests[r].at = "awaiting"
    /\ USE_LOCAL_LLM
    /\ requests' = Put(requests, r, Done("generate_minigame", requests[r].request,
                                         MinigameError(LocalLLMError(cause))))
    /\ UNCHANGED _sessions
    /\ OnlyQuiz

\* the environments the server runs under: mock mode, and live with a
\* local model
Environments == { NoEnviron, [USE_LOCAL_LLM |-> TrueStr, GITHUB_TOKEN |-> None] }

\* the submissions tried: quiz q1 is stored, quiz q2 is not
Submissions ==
    { [quiz_id |-> k, answers |-> a] : k \in QuizIds, a \in SeqsUpTo(AnswersTried, MaxAnswers) }

\* the server after one upload: quiz q1 is stored and nothing is answered
InitQuiz ==
    /\ environ \in Environments
    /\ _sessions = Put(EmptyDict, "q1", QuizSession("q1", StoredQuestions, <<"s", "e", "a">>, 10))
    /\ calls = <<>>
    /\ ret = NotCalled
    /\ NoRequest
    /\ running = "main"
    /\ suspended = EmptyDict
    /\ CleanerIdle

NextQuiz ==
    \/ \E r \in Requests, submission \in Submissions : submit_quiz(r, submission)
    \/ \E r \in Requests : EncouragementReturns(r)
    \/ \E r \in Requests : EncouragementRaises(r)
    \/ \E r \in Requests, k \in QuizIds, n \in QuestionIds :
          get_explanation(r, [quiz_id |-> k, question_id |-> n])
    \/ \E r \in Requests, k \in QuizIds : wrong_questions_endpoint(r, k)
    \/ \E r \in Requests, k \in QuizIds, p \in GamePrompts, t \in Themes :
          generate_minigame(r, [quiz_id |-> k, game_prompt |-> p, theme |-> t])
    \/ \E r \in Requests : MinigameReturns(r, <<"<html>">>)
    \/ \E r \in Requests, cause \in Causes : MinigameRaises(r, cause)

SpecQuiz == InitQuiz /\ [][NextQuiz]_vars

\* ------------------------------------------------------ the parser
\* line.startswith(prefix)
StartsWith(line, prefix) ==
    /\ Len(prefix) <= Len(line)
    /\ SubSeq(line, 1, Len(prefix)) = prefix

\* a test that skips empty lines only
IsSkippedEmptyOnly(line) == line = <<>>

\* the test of line 74 (and 105): the line is empty or a comment
IsSkipped(line) ==
    \/ line = <<>>
    \/ StartsWith(line, <<"#">>)
    \/ StartsWith(line, <<"/", "/">>)

\* the length of the match of ^\d+\. at the start of the line, 0 when it
\* does not match
NumberPrefix(line) ==
    LET digits == Min({p \in 1..(Len(line) + 1) : p = Len(line) + 1 \/ ~IsDigit(line[p])}) - 1
    IN  IF digits >= 1 /\ digits < Len(line) /\ line[digits + 1] = "." THEN digits + 1 ELSE 0

\* re.sub(r'^\d+\.\s*', '', line) on a line that NumberPrefix matches
RemovePrefix(line) ==
    LET rest == Tail2(line, NumberPrefix(line) + 1)
        first == {p \in 1..Len(rest) : ~IsSpace(rest[p])}
    IN  IF first = {} THEN <<>> ELSE Tail2(rest, Min(first))

\* uuid.uuid4() as a string: the ids come out in this order, all different
Uuids == <<"u1", "u2", "u3", "u4", "u5", "u6", "u7", "u8">>

\* the questions of a list of texts: Question(text) takes the next uuid
\* (question_parser.py 14); the first one is Uuids[first]
AsQuestions(texts, first) ==
    [k \in 1..Len(texts) |-> Question(texts[k], Uuids[first + k - 1])]

\* the loop of lines 70-87 and the test of line 90, as the texts of the
\* questions appended
NumberedTexts(txt) ==
    LET ls == Split(Strip(txt))
        Sub[k \in 0..Len(ls)] ==
            IF k = 0 THEN [questions |-> <<>>, current_question |-> <<>>]
            ELSE LET before == Sub[k - 1]
                     line == Strip(ls[k])
                 IN  IF IsSkipped(line) THEN before
                     ELSE IF NumberPrefix(line) > 0
                     THEN [questions |->
                              IF before.current_question # <<>>
                              THEN Append(before.questions, Strip(before.current_question))
                              ELSE before.questions,
                           current_question |-> RemovePrefix(line)]
                     ELSE IF before.current_question # <<>>
                     THEN [before EXCEPT !.current_question = @ \o <<" ">> \o line]
                     ELSE before
        end == Sub[Len(ls)]
    IN  IF end.current_question # <<>>
        THEN Append(end.questions, Strip(end.current_question))
        ELSE end.questions

\* QuestionParser.parse_numbered_questions (question_parser.py 60-94)
parse_numbered_questions(txt, first) == AsQuestions(NumberedTexts(txt), first)

\* QuestionParser.parse_plain_questions (question_parser.py 96-108)
parse_plain_questions(txt, first) ==
    LET ls == Split(Strip(txt))
        stripped == [k \in 1..Len(ls) |-> Strip(ls[k])]
        Kept(line) == ~IsSkipped(line)
    IN  AsQuestions(SelectSeq(stripped, Kept), first)

\* re.search(r'^\d+\.', text.strip(), re.MULTILINE): the pattern matches
\* at the start of a line of the stripped text
HasNumberedLine(txt) ==
    LET ls == Split(Strip(txt))
    IN  \E k \in 1..Len(ls) : NumberPrefix(ls[k]) > 0

\* QuestionParser.auto_parse (question_parser.py 111-120)
auto_parse(txt, first) ==
    IF HasNumberedLine(txt) THEN parse_numbered_questions(txt, first)
    ELSE parse_plain_questions(txt, first)

\* the lines the texts parsed are made of: numbered lines, one with white
\* space around it, one with a decimal number and one without a text,
\* plain lines, comments, an empty and a blank line
LinesTried ==
    { <<"1", ".", " ", "a">>, <<" ", "2", ".", "b", " ">>, <<"1", "0", ".", "5", " ", "c">>,
      <<"3", ".">>, <<"d">>, <<"e", " ", "f">>, <<"#", "1", ".", "g">>, <<"/", "/", "h">>,
      <<>>, <<" ">> }

\* the texts parsed
TextsTried == {Join(ls) : ls \in SeqsUpTo(LinesTried, MaxText)}

\* the parser is called with a text, as src/test_enhanced_quiz.py 23 does
ParserCalled(fn, txt) ==
    [endpoint |-> fn, at |-> "called", request |-> [text |-> txt], locals |-> [none |-> TRUE],
     response |-> NoResponse]

InitParse ==
    /\ \E txt \in TextsTried, fn \in {"parse_numbered_questions", "auto_parse"} :
          requests = Put(EmptyDict, "r1", ParserCalled(fn, txt))
    /\ handler = NoHandler
    /\ client = NoClient
    /\ response = NoResponse
    /\ StoreUnused
    /\ environ = NoEnviron
    /\ running = "main"
    /\ suspended = EmptyDict
    /\ CleanerIdle

\* the function returns its list of questions
Parse(r, fn) ==
    /\ r \in DOMAIN requests
    /\ requests[r].at = "called"
    /\ requests[r].endpoint = fn
    /\ requests' = Put(requests, r,
          Done(fn, requests[r].request,
               Ok([questions |-> IF fn = "auto_parse"
                                 THEN auto_parse(requests[r].request.text, 1)
                                 ELSE parse_numbered_questions(requests[r].request.text, 1)])))
    /\ UNCHANGED <<cleaner, running, suspended, environ, handler, client, response, _sessions,
                   calls, ret>>

NextParse ==
    \/ Parse("r1", "parse_numbered_questions")
    \/ Parse("r1", "auto_parse")

SpecParse == InitParse /\ [][NextParse]_vars

\* ------------------------------------------------------- the upload
\* s.endswith(suffix)
EndsWith(s, suffix) ==
    /\ Len(suffix) <= Len(s)
    /\ SubSeq(s, Len(s) - Len(suffix) + 1, Len(s)) = suffix

\* the names of the files uploaded
Filenames == { <<"q", ".", "t", "x", "t">>, <<"q", ".", "p", "d", "f">> }

\* the lines the files uploaded are made of: a numbered question, a line
\* that goes on with it, a comment
UploadLines == { <<"1", ".", " ", "a">>, <<"d">>, <<"#", "c">> }

\* the texts of the files uploaded
UploadTexts == {Join(ls) : ls \in SeqsUpTo(UploadLines, MaxUpload)}

\* rewrite_with_answer (llm.py 279-309): the dict of mock mode (281-285),
\* the dict made of what the model answered (298-302), and the dict of its
\* except clause (305-309)
MockRewritten(question, theme) ==
    [rewritten |-> <<"[Mock] ">> \o question \o <<" with theme ">> \o theme,
     answer |-> <<"4", "2">>,
     explanation |-> <<"[Mock] Here's how to solve this ">> \o theme \o <<"-themed problem!">>]
LiveRewritten == [rewritten |-> <<"r">>, answer |-> <<"4">>, explanation |-> <<"e">>]
ErrorRewritten(question) ==
    [rewritten |-> <<"[Error] ">> \o question,
     answer |-> <<"Error">>,
     explanation |-> <<"Unable to generate explanation">>]
\* what the await of image.generate_image gives at main.py 196: a dict
\* with a picture, a dict without one, or an exception
ImageResults ==
    { [raised |-> FALSE, status |-> "success", image_url |-> <<"/", "i">>],
      [raised |-> FALSE, status |-> "error", image_url |-> None],
      [raised |-> TRUE, status |-> "raised", image_url |-> None] }

\* main.py 189-192: the question with the results of the model
Updated(question, rewrite_result, theme) ==
    [question EXCEPT !.rewritten_text = rewrite_result.rewritten,
                     !.correct_answer = rewrite_result.answer,
                     !.explanation = rewrite_result.explanation,
                     !.theme = theme]

\* main.py 198-207
QuizQuestion(question, image_result, theme) ==
    [id |-> question.id,
     original |-> question.original_text,
     rewritten |-> question.rewritten_text,
     correct_answer |-> question.correct_answer,
     explanation |-> question.explanation,
     image_url |-> IF image_result.status = "success" THEN image_result.image_url ELSE None,
     theme |-> theme,
     topic |-> question.topic]

\* a placeholder without the id of the question
ErrorQuestionNoId(question, theme) ==
    [id |-> "",
     original |-> question.original_text,
     rewritten |-> <<"[Error processing] ">> \o question.original_text,
     correct_answer |-> <<"Error">>,
     explanation |-> <<"Unable to generate explanation">>,
     image_url |-> None,
     theme |-> theme,
     topic |-> question.topic]

\* the except clause of main.py 210-223
ErrorQuestion(question, theme) ==
    [id |-> question.id,
     original |-> question.original_text,
     rewritten |-> <<"[Error processing] ">> \o question.original_text,
     correct_answer |-> <<"Error">>,
     explanation |-> <<"Unable to generate explanation">>,
     image_url |-> None,
     theme |-> theme,
     topic |-> question.topic]

\* the uuids an upload has taken: one for each question parsed and one
\* for the quiz
UuidsOf(req) ==
    IF req.endpoint # "upload_quiz_file" THEN 0
    ELSE IF req.at = "awaiting" THEN
            IF req.locals.line = 167 THEN 0 ELSE Len(req.locals.questions) + 1
    ELSE IF req.response.status = 200 THEN Len(req.response.body.questions) + 1
    ELSE 0

UuidsTaken ==
    LET Sum[S \in SUBSET DOMAIN requests] ==
            IF S = {} THEN 0
            ELSE LET r == CHOOSE x \in S : TRUE
                 IN  UuidsOf(requests[r]) + Sum[S \ {r}]
    IN  Sum[DOMAIN requests]

\* the dict {q.id: q for q in questions} of QuizSession.__init__
ById(questions) ==
    [id \in {questions[p].id : p \in 1..Len(questions)} |->
        questions[Max({p \in 1..Len(questions) : questions[p].id = id})]]

\* the endpoints of the upload leave the cleaner and the llm handlers alone
OnlyUpload == UNCHANGED <<cleaner, running, suspended, environ, handler, client, response>>

\* upload_quiz_file (main.py 156-168) up to the HTTPException of line 164
\* or the await of line 167
upload_quiz_file(r, filename, content, theme, age) ==
    /\ r \notin DOMAIN requests
    /\ LET req == [filename |-> filename, content |-> content, theme |-> theme, age |-> age]
       IN  requests' = Put(requests, r,
              IF ~EndsWith(filename, <<".", "t", "x", "t">>)
              THEN Done("upload_quiz_file", req,
                        HTTPException(400, "Only .txt files are supported"))
              ELSE Awaiting("upload_quiz_file", req, [line |-> 167]))
    /\ UNCHANGED <<_sessions, calls, ret>>
    /\ OnlyUpload

\* the loop of main.py 184 comes to the question after those done and
\* calls rewrite_with_answer (186). In mock mode the call returns without
\* giving up control: the question is rewritten in place (189-192) and the
\* request waits for the picture (196). Otherwise the request waits inside
\* rewrite_with_answer, at the gather of llm.py 295
TurnStarted(req, locals) ==
    LET n == Len(locals.quiz_questions) + 1
    IN  IF MOCK
        THEN [locals EXCEPT
                !.line = 196,
                !.questions[n] = Updated(@, MockRewritten(@.original_text, req.theme),
                                         req.theme)]
        ELSE [locals EXCEPT !.line = 186, !.llm = 295]

\* rewrite_with_answer returned rewrite_result to line 186: the question is
\* rewritten in place (189-192) and the request waits for the picture (196)
RewriteReturned(req, locals, rewrite_result) ==
    LET n == Len(locals.quiz_questions) + 1
    IN  [locals EXCEPT !.line = 196,
                       !.llm = 0,
                       !.questions[n] = Updated(@, rewrite_result, req.theme)]

\* file.read() returned: main.py 167-186, up to the HTTPException of line
\* 174 or the first await of the first question
FileRead(r) ==
    /\ r \in DOMAIN requests
    /\ requests[r].endpoint = "upload_quiz_file"
    /\ requests[r].at = "awaiting"
    /\ requests[r].locals.line = 167
    /\ LET req == requests[r].request
           questions == auto_parse(req.content, UuidsTaken + 1)
       IN  requests' = Put(requests, r,
              IF questions = <<>>
              THEN Done("upload_quiz_file", req,
                        HTTPException(400, "No questions found in file"))
              ELSE Awaiting("upload_quiz_file", req,
                            TurnStarted(req,
                                [line |-> 186,
                                 llm |-> 0,
                                 questions |-> questions,
                                 quiz_id |-> Uuids[UuidsTaken + Len(questions) + 1],
                                 quiz_questions |-> <<>>])))
    /\ UNCHANGED <<_sessions, calls, ret>>
    /\ OnlyUpload

\* the gather of llm.py 295 is over: both texts are there and the request
\* waits for generate_explanation (296), or one of the two calls raised and
\* the except clause of line 303 returns its dict
GatherReturns(r, failed) ==
    /\ r \in DOMAIN requests
    /\ requests[r].endpoint = "upload_quiz_file"
    /\ requests[r].at = "awaiting"
    /\ requests[r].locals.line = 186
    /\ requests[r].locals.llm = 295
    /\ LET req == requests[r].request
           locals == requests[r].locals
           n == Len(locals.quiz_questions) + 1
       IN  requests' = Put(requests, r,
              Awaiting("upload_quiz_file", req,
                       IF failed
                       THEN RewriteReturned(req, locals,
                                ErrorRewritten(locals.questions[n].original_text))
                       ELSE [locals EXCEPT !.llm = 296]))
    /\ UNCHANGED <<_sessions, calls, ret>>
    /\ OnlyUpload

\* generate_explanation (llm.py 296) returned or raised: rewrite_with_answer
\* returns the dict of lines 298-302 or that of its except clause
ExplanationReturns(r, failed) ==
    /\ r \in DOMAIN requests
    /\ requests[r].endpoint = "upload_quiz_file"
    /\ requests[r].at = "awaiting"
    /\ requests[r].locals.line = 186
    /\ requests[r].locals.llm = 296
    /\ LET req == requests[r].request
           locals == requests[r].locals
           n == Len(locals.quiz_questions) + 1
       IN  requests' = Put(requests, r,
              Awaiting("upload_quiz_file", req,
                       RewriteReturned(req, locals,
                            IF failed THEN ErrorRewritten(locals.questions[n].original_text)
                            ELSE LiveRewritten)))
    /\ UNCHANGED <<_sessions, calls, ret>>
    /\ OnlyUpload

\* image.generate_image (main.py 196) returned or raised: the quiz question
\* of lines 198-207, or the placeholder of the except clause, is appended
\* (208, 223) and the loop goes on to the next question; after the last
\* question the session is made and stored and the quiz returned (lines
\* 226-234)
ImageReturns(r, image_result) ==
    /\ r \in DOMAIN requests
    /\ requests[r].endpoint = "upload_quiz_file"
    /\ requests[r].at = "awaiting"
    /\ requests[r].locals.line = 196
    /\ LET req == requests[r].request
           locals == requests[r].locals
           n == Len(locals.quiz_questions) + 1
           question == locals.questions[n]
           quiz_question == IF image_result.raised THEN ErrorQuestion(question, req.theme)
                            ELSE QuizQuestion(question, image_result, req.theme)
           quiz_questions == Append(locals.quiz_questions, quiz_question)
           session == QuizSession(locals.quiz_id, ById(locals.questions), req.theme, req.age)
       IN  IF n < Len(locals.questions)
           THEN /\ requests' = Put(requests, r,
                       Awaiting("upload_quiz_file", req,
                                TurnStarted(req,
                                    [locals EXCEPT !.quiz_questions = quiz_questions])))
                /\ UNCHANGED <<_sessions, calls, ret>>
           ELSE /\ requests' = Put(requests, r,
                       Done("upload_quiz_file", req,
                            Ok([quiz_id |-> locals.quiz_id,
                                theme |-> req.theme,
                                age |-> req.age,
                                questions |-> quiz_questions])))
                /\ _sessions' = Put(_sessions, session.quiz_id, session)
                /\ ret' = ReturnedNone
                /\ calls' = Append(calls, [op |-> "store_session",
                                           quiz_id |-> session.quiz_id,
                                           session |-> session])
    /\ OnlyUpload

\* the server with an empty store, in mock mode or with a local model
InitUpload ==
    /\ environ \in Environments
    /\ StoreUnused
    /\ NoRequest
    /\ running = "main"
    /\ suspended = EmptyDict
    /\ CleanerIdle

\* the file of the second upload: one question
SecondTexts == { <<"1", ".", " ", "a">> }

\* two uploads, the second of one file only; each goes on from any of its
\* awaits, whatever the other is doing
NextUpload ==
    \/ \E filename \in Filenames, content \in UploadTexts :
          upload_quiz_file("r1", filename, content, <<"s", "e", "a">>, 10)
    \/ \E content \in SecondTexts :
          upload_quiz_file("r2", <<"q", ".", "t", "x", "t">>, content,
                           <<"s", "p", "a", "c", "e">>, 10)
    \/ \E r \in Requests : FileRead(r)
    \/ \E r \in Requests, failed \in BOOLEAN : GatherReturns(r, failed)
    \/ \E r \in Requests, failed \in BOOLEAN : ExplanationReturns(r, failed)
    \/ \E r \in Requests, image_result \in ImageResults : ImageReturns(r, image_result)

SpecUpload == InitUpload /\ [][NextUpload]_vars

\* ------------------------------------------- the session used directly
\* what a method of the session returned
ReturnedInt(n) == [is |-> "int", value |-> n]
ReturnedList(l) == [is |-> "list", list |-> l]

\* the answers given to the session directly
AnswersGiven == { <<"4">>, <<"5">>, <<"X", " ">> }

\* the methods of the session leave everything but the session alone
OnlySession ==
    UNCHANGED <<cleaner, running, suspended, environ, handler, client, response, calls,
                requests>>

\* session.add_answer(question_id, answer), as in
\* src/test_enhanced_quiz.py 66-67
AddAnswer(quiz_id, question_id, answer) ==
    /\ quiz_id \in DOMAIN _sessions
    /\ _sessions' = Put(_sessions, quiz_id, add_answer(_sessions[quiz_id], question_id, answer))
    /\ ret' = ReturnedNone
    /\ OnlySession

\* session.calculate_score() (src/test_enhanced_quiz.py 69): line 164
\* of question_parser.py stores the score, line 165 returns it
CalculateScore(quiz_id) ==
    /\ quiz_id \in DOMAIN _sessions
    /\ \E correct \in {calculate_score(_sessions[quiz_id])} :
           /\ _sessions' = Put(_sessions, quiz_id,
                               [_sessions[quiz_id] EXCEPT !.score = IntScore(correct)])
           /\ ret' = ReturnedInt(correct)
    /\ OnlySession

\* session.get_wrong_questions() (src/test_enhanced_quiz.py 70)
GetWrongQuestions(quiz_id) ==
    /\ quiz_id \in DOMAIN _sessions
    /\ ret' = ReturnedList(get_wrong_questions(_sessions[quiz_id]))
    /\ UNCHANGED _sessions
    /\ OnlySession

\* the session of InitQuiz, in mock mode
InitSession == InitQuiz /\ environ = NoEnviron

NextSession ==
    \/ \E n \in QuestionIds, answer \in AnswersGiven : AddAnswer("q1", n, answer)
    \/ CalculateScore("q1")
    \/ GetWrongQuestions("q1")

SpecSession == InitSession /\ [][NextSession]_vars

\* ------------------------------------------------- vocabulary of the claims
\* one of the four tags, in any letter case, starts at position p of s
TagAt(s, p) ==
    \/ MatchAt(s, p, OpenThink)
    \/ MatchAt(s, p, CloseThink)
    \/ MatchAt(s, p, OpenThinking)
    \/ MatchAt(s, p, CloseThinking)

HasTag(s) == \E p \in 1..Len(s) : TagAt(s, p)

IsNotSpace(c) == ~IsSpace(c)

\* the non-whitespace characters of s, in order
NonWs(s) == SelectSeq(s, IsNotSpace)

\* the words of s: its maximal runs of non-whitespace characters
RECURSIVE Words(_)
Words(s) ==
    LET t == Strip(s)
        ws == {p \in 1..Len(t) : IsSpace(t[p])}
    IN  IF t = <<>> THEN <<>>
        ELSE IF ws = {} THEN <<t>>
        ELSE <<SubSeq(t, 1, Min(ws) - 1)>> \o Words(Tail2(t, Min(ws)))

\* position in s of its n-th non-whitespace character
NthNonWs(s, n) ==
    LET S == {p \in 1..Len(s) : ~IsSpace(s[p])}
    IN  CHOOSE p \in S : Cardinality({q \in S : q <= p}) = n

\* s holds three line breaks in a row
HasTripleNewline(s) ==
    \E p \in 1..(Len(s) - 2) : s[p] = "\n" /\ s[p + 1] = "\n" /\ s[p + 2] = "\n"

\* what every step after the paired passes makes of t (lines 80-114)
RestOfClean(t) ==
    LET t2 == Strip(CollapseNewlines(CollapseBlanks(RemoveOrphans(t))))
    IN  Strip(Join(FormatAll(<<>>, 0, Split(t2))))

\* the pairing the specification describes: the leftmost opening tag of
\* either spelling through the nearest closing tag of either spelling after
\* it becomes one space, then the scan goes on behind that closing tag
RECURSIVE NearestClosePairs(_)
NearestClosePairs(s) ==
    LET opens == {p \in 1..Len(s) :
                     MatchAt(s, p, OpenThink) \/ MatchAt(s, p, OpenThinking)}
        o == IF opens = {} THEN 0 ELSE Min(opens)
        ol == IF o # 0 /\ MatchAt(s, o, OpenThink)
              THEN Len(OpenThink) ELSE Len(OpenThinking)
        closes == IF o = 0 THEN {}
                  ELSE {p \in (o + ol)..Len(s) :
                           MatchAt(s, p, CloseThink) \/ MatchAt(s, p, CloseThinking)}
        c == IF closes = {} THEN 0 ELSE Min(closes)
        cl == IF c # 0 /\ MatchAt(s, c, CloseThink)
              THEN Len(CloseThink) ELSE Len(CloseThinking)
    IN  IF c = 0 THEN s
        ELSE SubSeq(s, 1, o - 1) \o <<" ">> \o NearestClosePairs(Tail2(s, c + cl))

\* every tag of s, whatever its kind, replaced by one space in a single scan
RECURSIVE EachTagToSpace(_)
EachTagToSpace(s) ==
    IF s = <<>> THEN <<>>
    ELSE IF MatchAt(s, 1, OpenThink)
         THEN <<" ">> \o EachTagToSpace(Tail2(s, Len(OpenThink) + 1))
    ELSE IF MatchAt(s, 1, CloseThink)
         THEN <<" ">> \o EachTagToSpace(Tail2(s, Len(CloseThink) + 1))
    ELSE IF MatchAt(s, 1, OpenThinking)
         THEN <<" ">> \o EachTagToSpace(Tail2(s, Len(OpenThinking) + 1))
    ELSE IF MatchAt(s, 1, CloseThinking)
         THEN <<" ">> \o EachTagToSpace(Tail2(s, Len(CloseThinking) + 1))
    ELSE <<s[1]>> \o EachTagToSpace(Tail(s))

\* the text before a span ends, and the text behind it starts, on the
\* span's own line with a non-whitespace character (blanks may lie between)
EndsOnLine(a) ==
    LET nb == {p \in 1..Len(a) : ~IsBlank(a[p])}
    IN  nb # {} /\ ~IsSpace(a[Max(nb)])

StartsOnLine(b) ==
    LET nb == {p \in 1..Len(b) : ~IsBlank(b[p])}
    IN  nb # {} /\ ~IsSpace(b[Min(nb)])

\* the normal form of claim C7
NormalForm(t) ==
    LET ls == Split(t)
    IN  /\ ~HasTag(t)
        /\ \A p \in 1..Len(t) : t[p] # "\t"
        /\ \A p \in 1..(Len(t) - 1) : ~(t[p] = " " /\ t[p + 1] = " ")
        /\ \A k \in 1..Len(ls) : Strip(ls[k]) = ls[k]
        /\ t # <<>> => (t[1] # "\n" /\ t[Len(t)] # "\n")
        /\ ~HasTripleNewline(t)
        /\ \A k \in 2..Len(ls) : IsHeading(ls[k]) => ls[k - 1] = <<>>
        /\ \A k \in 2..Len(ls) :
              IsListItem(ls[k]) => (ls[k - 1] = <<>> \/ IsListItem(ls[k - 1]))

\* ------------------------------------------------------------------ claims
\* C1: the returned text of every call on a string holds none of <think>,
\* </think>, <thinking>, </thinking> in any letter case.
C1_NoTagSurvives == pc = "done" /\ input # None => ~HasTag(result)

\* a removed span between two fragments of a tag: the fragments stay apart
C1_Witness ==
    /\ pc = "done"
    /\ parts = << <<"<", "t", "h", "i">>, OpenThink, CloseThink, <<"n", "k", ">">> >>
    /\ result = <<"<", "t", "h", "i", " ", "n", "k", ">">>

\* C2: the returned text is what the nearest-closing-tag pairing gives: every
\* opening tag is removed through the nearest closing tag of either spelling
\* behind it, and the text behind that closing tag is kept.
C2_NearestClosingTag ==
    pc = "done" /\ ~IsFalsy(input) => result = RestOfClean(NearestClosePairs(input))

\* C3: one span whose opening and closing tag differ in spelling or letter
\* case, between tag-free a and b with a tag-free body x: nothing of x is
\* returned, and the words of a and of b are returned, in order.
C3_MismatchedSpanRemoved ==
    pc = "done" /\ Len(parts) = 5 =>
        /\ \A p \in 1..Len(result) : result[p] # "x"
        /\ Words(result) = Words(parts[1]) \o Words(parts[5])

C3_Witness ==
    /\ pc = "done"
    /\ parts = << <<"a">>, OpenThink, <<"x", "\n", "x">>,
                  <<"<", "/", "T", "H", "I", "N", "K", "I", "N", "G", ">">>, <<"b">> >>
    /\ result = <<"a", " ", "b">>

\* C4: when a ends and b starts on the line of the span between them, the
\* last character of a and the first of b are returned with exactly one
\* space between them.
C4_SpanBecomesOneSpace ==
    pc = "done" /\ Len(parts) = 5 /\ EndsOnLine(parts[1]) /\ StartsOnLine(parts[5]) =>
        LET n == Len(NonWs(parts[1]))
        IN  /\ Len(NonWs(result)) = n + Len(NonWs(parts[5]))
            /\ NthNonWs(result, n + 1) = NthNonWs(result, n) + 2
            /\ result[NthNonWs(result, n) + 1] = " "

\* blanks on both sides of the span in the input
C4_Witness ==
    /\ pc = "done"
    /\ parts = << <<"a", " ">>, OpenThinking, <<"x">>, CloseThinking, <<" ", "b">> >>
    /\ result = <<"a", " ", "b">>

\* C5: the standalone passes replace every tag left by the paired passes by
\* one space and change nothing else.
C5_OrphansReplacedBySpace ==
    [][pc = "paired" /\ pc' = "untagged" => text' = EachTagToSpace(text)]_vars

\* an orphan closing tag with text before it, an orphan opening tag with
\* text behind it
C5_Witness ==
    /\ pc = "untagged"
    /\ parts = << <<"a">>, CloseThink, OpenThinking, <<"a">> >>
    /\ text = <<"a", " ", " ", "a">>

\* C6: cleaning the returned text of a tag-free string again returns it
\* unchanged.
C6_IdempotentOnTagFree ==
    pc = "done" /\ input # None /\ ~HasTag(input) =>
        clean_reasoning_output(result) = result

\* the first cleaning changed the text, the second does not
C6_Witness ==
    /\ pc = "done"
    /\ parts = << <<"a">>, <<"\t">>, <<"a">>, <<"\n">>, <<"-">> >>
    /\ result = <<"a", " ", "a", "\n", "\n", "-">>
    /\ clean_reasoning_output(result) = result

\* C7: text in normal form is returned as it is, alone and behind a
\* reasoning span and a blank line.
C7_NormalFormFixedPoint ==
    pc = "done" /\ input # None =>
        /\ NormalForm(input) => result = input
        /\ Len(parts) >= 2 /\ parts[1] = SpanPiece /\ parts[2] = <<"\n", "\n">>
              /\ NormalForm(Flatten(SubSeq(parts, 3, Len(parts))))
           => result = Flatten(SubSeq(parts, 3, Len(parts)))

C7_Witness ==
    /\ pc = "done"
    /\ parts = << SpanPiece, <<"\n", "\n">>, <<"-">>, <<"\n">>, <<"1", ".">> >>
    /\ NormalForm(<<"-", "\n", "1", ".">>)
    /\ result = <<"-", "\n", "1", ".">>

\* C8: called with None or with the empty string, the function returns its
\* argument at once: its next step is the return, and no pass has run.
C8_FalsyReturnedUntouched ==
    [][pc = "call" /\ (input = None \/ input = <<>>)
          => pc' = "done" /\ result' = input /\ text' = text]_vars

C8_Witness == pc = "done" /\ input = None /\ result = None /\ text = None

\* C9: every call on a string comes to its return, and returns a string.
C9_Total == (input # None) ~> (pc = "done" /\ result # Unset /\ result # None)

\* input of unbalanced tags only
C9_Witness ==
    /\ pc = "done"
    /\ parts = <<CloseThinking, OpenThink, OpenThinking>>
    /\ result = <<>>

\* C10: the returned text never holds three line breaks in a row.
C10_NoTripleNewline == pc = "done" /\ input # None => ~HasTripleNewline(result)

\* a line whose only content is a span, next to a blank line and a heading
C10_Witness ==
    /\ pc = "done"
    /\ parts = << <<"a">>, <<"\n">>, SpanPiece, <<"\n", "\n">>, <<"#">> >>
    /\ result = <<"a", "\n", "\n", "#">>

\* ------------------------------------------ vocabulary of the line claims
\* the indices of the lines of ls that are not blank, in increasing order
NonBlankIdx(ls) ==
    LET S == {k \in 1..Len(ls) : Strip(ls[k]) # <<>>}
    IN  [j \in 1..Cardinality(S) |-> CHOOSE k \in S : Cardinality({q \in S : q <= k}) = j]

\* the call has returned the cleaning of a string without tags
CleanedTagFree == pc = "done" /\ input # None /\ ~HasTag(input)

\* the line classes, read off the stripped line
IsHeadingLine(l) == IsHeading(Strip(l))
IsListLine(l) == IsListItem(Strip(l))

\* P(a, b, gin, gout) holds of every two consecutive non-blank lines a, b of
\* the input, gin the number of blank lines between them in the input and
\* gout the number between the same two lines in the returned text; the
\* non-blank lines of input and returned text correspond one to one
ForEachLinePair(P(_, _, _, _)) ==
    LET il == Split(input)
        ol == Split(result)
        ii == NonBlankIdx(il)
        oi == NonBlankIdx(ol)
    IN  /\ Len(ii) = Len(oi)
        /\ \A j \in 1..Len(ii) : Words(il[ii[j]]) = Words(ol[oi[j]])
        /\ \A j \in 1..(Len(ii) - 1) :
              P(il[ii[j]], il[ii[j + 1]], ii[j + 1] - ii[j] - 1, oi[j + 1] - oi[j] - 1)

\* ------------------------------------------------------------------ claims
\* C11: no returned text holds two spaces in a row or a tab.
C11_SingleSpaces ==
    pc = "done" /\ input # None =>
        /\ \A p \in 1..Len(result) : result[p] # "\t"
        /\ \A p \in 1..(Len(result) - 1) : ~(result[p] = " " /\ result[p + 1] = " ")

\* a run of a tab and a removed span between two words
C11_Witness ==
    /\ pc = "done"
    /\ parts = << <<"a">>, <<"\t">>, SpanPiece, <<"a">> >>
    /\ result = <<"a", " ", "a">>

\* C12: two non-blank lines of a tag-free input with one or more blank or
\* whitespace-only lines between them are returned with exactly one blank
\* line between them.
C12_Paragraph(a, b, gin, gout) == gin >= 1 => gout = 1

C12_ParagraphBreaksKept == CleanedTagFree => ForEachLinePair(C12_Paragraph)

\* three blank lines between two words
C12_Witness ==
    /\ pc = "done"
    /\ parts = << <<"a">>, <<"\n", "\n">>, <<"\n", "\n">>, <<"a">> >>
    /\ result = <<"a", "\n", "\n", "a">>

\* C13: every returned line but the first that starts with '#' has a blank
\* line before it; behind a non-blank line of a tag-free input a heading gets
\* one blank line, behind blank lines it gets none in addition.
C13_Heading(a, b, gin, gout) == IsHeadingLine(b) => gout = 1

C13_BlankBeforeHeading ==
    pc = "done" /\ input # None =>
        /\ LET ol == Split(result)
           IN  \A k \in 2..Len(ol) : IsHeading(ol[k]) => ol[k - 1] = <<>>
        /\ ~HasTag(input) => ForEachLinePair(C13_Heading)

C13_Witness ==
    /\ pc = "done"
    /\ parts = << <<"a">>, <<"\n">>, <<"#">> >>
    /\ result = <<"a", "\n", "\n", "#">>

\* C14: a list item directly behind a non-blank line that is no list item
\* gets exactly one blank line before it, and every returned list-item line
\* but the first has a blank line or a list item before it.
C14_List(a, b, gin, gout) ==
    gin = 0 /\ IsListLine(b) /\ ~IsListLine(a) => gout = 1

C14_BlankBeforeList ==
    pc = "done" /\ input # None =>
        /\ LET ol == Split(result)
           IN  \A k \in 2..Len(ol) :
                  IsListItem(ol[k]) => (ol[k - 1] = <<>> \/ IsListItem(ol[k - 1]))
        /\ ~HasTag(input) => ForEachLinePair(C14_List)

C14_Witness ==
    /\ pc = "done"
    /\ parts = << <<"a">>, <<"\n">>, <<"1", ".">> >>
    /\ result = <<"a", "\n", "\n", "1", ".">>

\* C15: two list items on adjacent lines of a tag-free input are returned
\* on adjacent lines.
C15_Adjacent(a, b, gin, gout) ==
    gin = 0 /\ IsListLine(a) /\ IsListLine(b) => gout = 0

C15_ListItemsStayAdjacent == CleanedTagFree => ForEachLinePair(C15_Adjacent)

\* a bullet and a numbered item
C15_Witness ==
    /\ pc = "done"
    /\ parts = << <<"-">>, <<"\n">>, <<"1", ".">> >>
    /\ result = <<"-", "\n", "1", ".">>

\* C16: a line that is neither heading nor list item and directly follows a
\* non-blank line of a tag-free input is returned directly behind that line.
C16_Plain(a, b, gin, gout) ==
    gin = 0 /\ ~IsHeadingLine(b) /\ ~IsListLine(b) => gout = 0

C16_NothingInsertedAfter == CleanedTagFree => ForEachLinePair(C16_Plain)

\* a plain line directly behind a heading
C16_Witness ==
    /\ pc = "done"
    /\ parts = << <<"#">>, <<"\n">>, <<"a">> >>
    /\ result = <<"#", "\n", "a">>

\* C17: whenever a client call returns, clean_reasoning_output has been
\* called exactly once in it and the returned text is the cleaning of the raw
\* model text; whatever a handler hands on from a client is that cleaned text.
C17_CleanedOnceBeforeReturn ==
    [][ /\ (client.at # "returned" /\ client'.at = "returned") =>
              /\ client'.cleanings = 1
              /\ client'.cleaned_response = clean_reasoning_output(client.raw_response)
        /\ (handler.at = "awaiting" /\ handler'.at = "returned" /\ client.at = "returned") =>
              /\ handler'.value = clean_reasoning_output(client.raw_response)
              /\ ~HasTag(handler'.value)
      ]_vars

\* a handler has received "a" for the model text "<think>x</think>a"
C17_Witness ==
    /\ handler.at = "returned"
    /\ client.at = "returned"
    /\ client.cleanings = 1
    /\ parts = <<SpanPiece, <<"a">> >>
    /\ handler.value = <<"a">>

\* C19: mock mode is on exactly when USE_LOCAL_LLM is not "true" (in any
\* letter case) and GITHUB_TOKEN is unset or empty; in mock mode
\* rewrite_question calls no client, never raises and returns
\* "[Mock] <question> with theme <theme>", and the endpoint answers 200 with
\* that text in the field rewritten.
C19_MockRewrite ==
    LET local  == environ.USE_LOCAL_LLM
        token  == environ.GITHUB_TOKEN
        istrue == local # None /\ lower(local) = TrueStr
        canned == <<"[Mock] ">> \o handler.question \o <<" with theme ">> \o handler.theme
    IN  /\ MOCK <=> (~istrue /\ (token = None \/ token = <<>>))
        /\ (MOCK /\ handler.name = "rewrite_question") =>
              /\ client = NoClient
              /\ pc = "idle"
              /\ handler.at \in {"entered", "returned"}
              /\ handler.at = "returned" => handler.value = canned
              /\ response.status \in {0, 200}
              /\ response.status = 200 => response.body = [rewritten |-> canned]

\* the request of test_rewrite.py answered in mock mode, nothing set
C19_Witness ==
    /\ environ = NoEnviron
    /\ MOCK
    /\ handler.name = "rewrite_question"
    /\ client = NoClient
    /\ response.status = 200
    /\ response.body.rewritten =
          <<"[Mock] ", "1", "+", "1", "?", " with theme ", "s", "p", "a", "c", "e">>

\* an invocation that has returned has returned what a call on its own returns
ReturnedAsAlone(f) == f.pc = "done" => f.result = clean_reasoning_output(f.input)

\* C18: however the invocations of clean_reasoning_output are interleaved,
\* each returns the value a lone call with its argument returns.
C18_Reentrant ==
    /\ ReturnedAsAlone(Locals)
    /\ \A k \in DOMAIN suspended : ReturnedAsAlone(suspended[k])

\* t2 has run from call to return while t1 stood in the middle of its loop,
\* one line rebuilt and one to go
C18_Witness ==
    /\ running = "t2"
    /\ pc = "done"
    /\ parts = <<SpanPiece, <<"a">> >>
    /\ result = <<"a">>
    /\ suspended["t1"].pc = "loop"
    /\ suspended["t1"].i = 1
    /\ suspended["t1"].formatted_lines = << <<"a">> >>
    /\ suspended["t1"].lines = << <<"a">>, <<"#">> >>

\* the calls that stored under k or removed k, by their place in the log
Touching(k) ==
    {n \in 1..Len(calls) :
        \/ calls[n].op = "clear_all"
        \/ calls[n].op \in {"store_session", "delete_session"} /\ calls[n].quiz_id = k}

\* the session most recently stored under k and not deleted since, if any
LatestStored(k) ==
    IF Touching(k) = {} THEN ReturnedNone
    ELSE LET c == calls[Max(Touching(k))]
         IN  IF c.op = "store_session" THEN ReturnedSession(c.session) ELSE ReturnedNone

\* C20: after any sequence of calls the store holds under every id the
\* session most recently stored under it and not deleted since, and nothing
\* under any other id; get_session returns that session or None;
\* delete_session returns normally, for an unknown id too, and then changes
\* nothing.
C20_KeyValueMap ==
    /\ \A k \in QuizIds :
          IF k \in DOMAIN _sessions
          THEN LatestStored(k) = ReturnedSession(_sessions[k])
          ELSE LatestStored(k) = ReturnedNone
    /\ DOMAIN _sessions \subseteq QuizIds
    /\ calls # <<>> =>
          LET c == calls[Len(calls)]
          IN  /\ c.op = "get_session" => ret = LatestStored(c.quiz_id)
              /\ c.op = "delete_session" => ret = ReturnedNone

\* q1 stored, replaced, deleted, and deleted once more
C20_Witness ==
    /\ Len(calls) = 4
    /\ calls[1].op = "store_session" /\ calls[1].quiz_id = "q1"
    /\ calls[2].op = "store_session" /\ calls[2].quiz_id = "q1"
    /\ calls[2].session # calls[1].session
    /\ calls[3].op = "delete_session" /\ calls[3].quiz_id = "q1"
    /\ calls[4].op = "delete_session" /\ calls[4].quiz_id = "q1"
    /\ _sessions = EmptyDict
    /\ ret = ReturnedNone

\* a is b with some characters left out, the order kept
RECURSIVE IsSubsequence(_, _)
IsSubsequence(a, b) ==
    IF a = <<>> THEN TRUE
    ELSE IF b = <<>> THEN FALSE
    ELSE IF a[1] = b[1] THEN IsSubsequence(Tail(a), Tail(b))
    ELSE IsSubsequence(a, Tail(b))

\* C21: for an argument without tags the returned text has the same words,
\* in the same order, as the argument; for any argument the non-whitespace
\* characters returned are a subsequence of those of the argument.
C21_OnlyWhitespaceChanges ==
    pc = "done" /\ input # None =>
        /\ ~HasTag(input) => Words(result) = Words(input)
        /\ IsSubsequence(NonWs(result), NonWs(input))

\* two words behind a space, a space between them
C21_Witness ==
    /\ pc = "done"
    /\ parts = << <<" ">>, <<"a">>, <<" ">>, <<"a">> >>
    /\ Words(input) = << <<"a">>, <<"a">> >>
    /\ result = <<"a", " ", "a">>

\* C22: cleaning a returned text once more returns it unchanged, whatever
\* tags the argument held.
C22_Idempotent ==
    pc = "done" /\ input # None => clean_reasoning_output(result) = result

\* a mismatched span before a word
C22_Witness ==
    /\ pc = "done"
    /\ parts = << OpenThink, <<"a">>, CloseThinking, <<"a">> >>
    /\ result = <<"a">>
    /\ clean_reasoning_output(result) = result

\* ---------------------------------------------- vocabulary of the quiz claims
\* the positions of the answers of s that can be scored: the question is in
\* the session and its correct answer is not empty
ScorablePositions(s) ==
    {p \in 1..Len(s.user_answers) :
        /\ s.user_answers[p].question_id \in DOMAIN s.questions
        /\ s.questions[s.user_answers[p].question_id].correct_answer \notin {None, <<>>}}

\* the ids at the positions ps of the answers of s
IdsAt(s, ps) == {s.user_answers[p].question_id : p \in ps}

\* the elements of a list
Range(l) == {l[p] : p \in 1..Len(l)}

\* the answers of s that check_answer accepts, whatever the question
AcceptedPositions(s) ==
    {p \in ScorablePositions(s) :
        CheckedAnswer(s.user_answers[p].answer,
                     s.questions[s.user_answers[p].question_id].correct_answer)}

\* ------------------------------------------------------------------ claims
\* C26: calculate_score and get_wrong_questions split the scorable answers
\* (the answered id is a question of the session with a non-empty correct
\* answer): the score plus the number of wrong questions is the number of
\* scorable answers, the score is between 0 and the number of questions,
\* and unknown ids and questions without a correct answer are in neither
C26_ScorePartition ==
    \A k \in DOMAIN _sessions :
        LET s == _sessions[k]
            score == calculate_score(s)
            wrong == get_wrong_questions(s)
        IN  /\ score + Len(wrong) = Cardinality(ScorablePositions(s))
            /\ 0 <= score /\ score <= Cardinality(DOMAIN s.questions)
            /\ score = Cardinality(AcceptedPositions(s))
            /\ Range(wrong) = IdsAt(s, ScorablePositions(s) \ AcceptedPositions(s))
            /\ Len(wrong) = Cardinality(Range(wrong))
            /\ ret.is = "int" => ret.value = score /\ s.score = IntScore(score)
            /\ ret.is = "list" => ret.list = wrong

C26_Witness ==
    /\ ret = ReturnedInt(1)
    /\ "q1" \in DOMAIN _sessions
    /\ Len(_sessions["q1"].user_answers) = 4
    /\ get_wrong_questions(_sessions["q1"]) = <<"n2">>
    /\ _sessions["q1"].score = IntScore(1)

\* the submit_quiz requests that found their quiz
Submitted(reqs) ==
    {r \in DOMAIN reqs :
        /\ reqs[r].endpoint = "submit_quiz"
        /\ reqs[r].at = "awaiting" \/ reqs[r].response.status # 404}

\* the requests that submit_quiz answered with its result
Answered(reqs) == {r \in Submitted(reqs) : reqs[r].at = "done" /\ reqs[r].response.status = 200}

\* what submit_quiz computed before its await: its local variables while
\* it waits, its response afterwards
ScoreOf(req) == IF req.at = "awaiting" THEN req.locals.score ELSE req.response.body.score
WrongOf(req) ==
    IF req.at = "awaiting" THEN req.locals.wrong_questions
    ELSE req.response.body.wrong_questions

\* the ids answered in a dict of answers or in a submission
Answered_ids(items) == {items[p].question_id : p \in 1..Len(items)}

\* the last answer to question n in a list of answers
LastAnswer(items, n) ==
    items[Max({p \in 1..Len(items) : items[p].question_id = n})].answer

\* the answers of a submission to questions of session s, in order
KnownAnswers(s, answers) ==
    LET Known(a) == a.question_id \in DOMAIN s.questions
    IN  SelectSeq(answers, Known)

\* C24: the answers of a session accumulate over submissions: user_answers
\* keeps one answer per question id, the last one given, and no step
\* removes an answer; the score and the wrong questions of a submission
\* count every answer recorded so far, those of earlier submissions
\* included, while its feedback lists the answers of this submission only
C24_AnswersAccumulate ==
    [][\A k \in DOMAIN _sessions :
        LET before == _sessions[k].user_answers
            after  == _sessions'[k].user_answers
        IN  /\ k \in DOMAIN _sessions'
            /\ Answered_ids(before) \subseteq Answered_ids(after)
            /\ Cardinality(Answered_ids(after)) = Len(after)
            /\ \A r \in Submitted(requests') \ DOMAIN requests :
                  LET req == requests'[r]
                      given == req.request.answers
                  IN  req.request.quiz_id = k =>
                        /\ Answered_ids(after) = Answered_ids(before) \cup Answered_ids(given)
                        /\ \A n \in Answered_ids(after) :
                              ValueAt(after, n) = IF n \in Answered_ids(given)
                                                  THEN LastAnswer(given, n)
                                                  ELSE ValueAt(before, n)
                        /\ ScoreOf(req) = Cardinality(AcceptedPositions(_sessions'[k]))
                        /\ Range(WrongOf(req)) =
                              IdsAt(_sessions'[k], ScorablePositions(_sessions'[k])
                                                     \ AcceptedPositions(_sessions'[k]))
            /\ \A r \in Answered(requests') \ Answered(requests) :
                  LET req == requests'[r]
                      known == KnownAnswers(_sessions'[k], req.request.answers)
                      feedback == req.response.body.feedback
                  IN  req.request.quiz_id = k =>
                        /\ Len(feedback) = Len(known)
                        /\ \A p \in 1..Len(known) :
                              /\ feedback[p].question_id = known[p].question_id
                              /\ feedback[p].user_answer = known[p].answer
                        /\ _sessions'[k].feedback = feedback
    ]_vars

\* the second submission answers n2 only; its score counts the answer to
\* n1 of the first, its feedback has the one entry for n2
C24_Witness ==
    /\ Answered(requests) = {"r1", "r2"}
    /\ requests["r1"].request.answers = <<[question_id |-> "n1", answer |-> <<"4", ".", "0">>]>>
    /\ requests["r2"].request.answers = <<[question_id |-> "n2", answer |-> <<"X", " ">>]>>
    /\ requests["r1"].response.body.score = 1
    /\ requests["r2"].response.body.score = 2
    /\ Len(requests["r2"].response.body.feedback) = 1
    /\ Len(_sessions["q1"].user_answers) = 2

\* the submit_quiz requests that wait at the await of line 259
Waiting(reqs) == {r \in Submitted(reqs) : reqs[r].at = "awaiting"}

\* C23: submit_quiz is not atomic. Outside mock mode it records the
\* answers, stores the score of calculate_score and waits for the
\* encouragement; a request that starts meanwhile finds the answers the
\* waiting one recorded; a request that resumes records nothing more and
\* writes the score it computed before the await, and its own feedback,
\* over whatever the session holds by then: the last to resume decides
C23_SubmitNotAtomic ==
    [][\A r \in Requests :
        /\ r \in Submitted(requests') \ DOMAIN requests /\ ~MOCK =>
              LET k == requests'[r].request.quiz_id
              IN  /\ r \in Waiting(requests')
                  /\ _sessions'[k].score = IntScore(requests'[r].locals.score)
                  /\ _sessions'[k].feedback = _sessions[k].feedback
                  /\ \A w \in Waiting(requests) :
                        requests[w].request.quiz_id = k =>
                            Answered_ids(requests[w].request.answers)
                                \subseteq Answered_ids(_sessions[k].user_answers)
                  /\ requests'[r].locals.score = Cardinality(AcceptedPositions(_sessions'[k]))
        /\ r \in Waiting(requests) /\ r \in Answered(requests') =>
              LET k == requests[r].request.quiz_id
              IN  /\ _sessions'[k].user_answers = _sessions[k].user_answers
                  /\ _sessions'[k].score = IntScore(requests[r].locals.score)
                  /\ _sessions'[k].feedback = requests'[r].response.body.feedback
                  /\ requests'[r].response.body.score = requests[r].locals.score
    ]_vars

\* r1 answered n1 and r2 answered n2, both correctly; r2 resumed first and
\* r1 last: the session says 1 where two recorded answers are correct
C23_Witness ==
    /\ Answered(requests) = {"r1", "r2"}
    /\ requests["r1"].request.answers = <<[question_id |-> "n1", answer |-> <<"4", ".", "0">>]>>
    /\ requests["r2"].request.answers = <<[question_id |-> "n2", answer |-> <<"X", " ">>]>>
    /\ requests["r2"].response.body.score = 2
    /\ _sessions["q1"].score = IntScore(1)
    /\ Cardinality(AcceptedPositions(_sessions["q1"])) = 2
    /\ _sessions["q1"].feedback = requests["r1"].response.body.feedback

\* the submit_quiz requests that ended in the exception of the model call
Failed(reqs) == {r \in Submitted(reqs) : reqs[r].at = "done" /\ reqs[r].response.status = 500}

\* C25: submit_quiz does not roll back. When the encouragement call raises
\* (outside mock mode), the request fails and the step changes nothing in
\* the session: the answers of the submission, recorded before the call,
\* stay in user_answers, the score calculate_score stored stays, and the
\* feedback is the one the session had before, which the part before the
\* call did not touch either
C25_NoRollback ==
    [][\A r \in Requests :
        /\ r \in Failed(requests') \ Failed(requests) =>
              LET k == requests[r].request.quiz_id
                  given == requests[r].request.answers
              IN  /\ r \in Waiting(requests) /\ ~MOCK
                  /\ _sessions' = _sessions
                  /\ \A n \in Answered_ids(given) :
                        /\ HasKey(_sessions'[k].user_answers, n)
                        /\ Submitted(requests) = {r} =>
                              ValueAt(_sessions'[k].user_answers, n) = LastAnswer(given, n)
                  /\ _sessions'[k].score # NoScore
                  /\ Submitted(requests) = {r} =>
                        /\ _sessions'[k].score = IntScore(requests[r].locals.score)
                        /\ _sessions'[k].feedback = <<>>
        /\ r \in Waiting(requests') \ DOMAIN requests =>
              LET k == requests'[r].request.quiz_id
              IN  /\ _sessions'[k].feedback = _sessions[k].feedback
                  /\ _sessions'[k].score = IntScore(calculate_score(_sessions'[k]))
    ]_vars

\* the only request answered n1 correctly and a question zz that is not in
\* the quiz, and failed: the session keeps both answers and the score 1,
\* and has no feedback
C25_Witness ==
    /\ DOMAIN requests = {"r1"}
    /\ Failed(requests) = {"r1"}
    /\ requests["r1"].request.answers =
          << [question_id |-> "n1", answer |-> <<"4", ".", "0">>],
             [question_id |-> "zz", answer |-> <<"4">>] >>
    /\ Len(_sessions["q1"].user_answers) = 2
    /\ _sessions["q1"].score = IntScore(1)
    /\ _sessions["q1"].feedback = <<>>

\* the requests that arrive in this step
Arriving == DOMAIN requests' \ DOMAIN requests

\* the answer with status 404 and this detail
NotFound(resp, detail) == resp.status = 404 /\ resp.body.detail = detail

\* C27: submit_quiz, get_explanation and the wrong-questions endpoint
\* answer a quiz_id that is not in the store with 404 'Quiz session not
\* found', get_explanation answers a question id that is not in the quiz
\* with 404 too, and such a request leaves the store as it was: no
\* session is created, none is changed
C27_UnknownQuizIs404 ==
    [][\A r \in Arriving :
        LET req == requests'[r]
        IN  req.endpoint \in {"submit_quiz", "get_explanation", "get_wrong_questions"} =>
              /\ req.request.quiz_id \notin DOMAIN _sessions =>
                    /\ req.at = "done"
                    /\ NotFound(req.response, "Quiz session not found")
                    /\ _sessions' = _sessions
              /\ req.request.quiz_id \in DOMAIN _sessions =>
                    IF /\ req.endpoint = "get_explanation"
                       /\ req.request.question_id
                             \notin DOMAIN _sessions[req.request.quiz_id].questions
                    THEN /\ req.at = "done"
                         /\ NotFound(req.response, "Question not found")
                         /\ _sessions' = _sessions
                    ELSE req.at = "done" => req.response.status = 200
    ]_vars

\* a submission with an answer for the quiz q2, which is not stored, and
\* a request for the explanation of a question that q1 does not have
C27_Witness ==
    /\ DOMAIN requests = {"r1", "r2"}
    /\ requests["r1"].endpoint = "submit_quiz"
    /\ requests["r1"].request.quiz_id = "q2"
    /\ Len(requests["r1"].request.answers) = 1
    /\ NotFound(requests["r1"].response, "Quiz session not found")
    /\ requests["r2"].endpoint = "get_explanation"
    /\ requests["r2"].request = [quiz_id |-> "q1", question_id |-> "zz"]
    /\ NotFound(requests["r2"].response, "Question not found")
    /\ DOMAIN _sessions = {"q1"}
    /\ _sessions["q1"].user_answers = <<>>
    /\ _sessions["q1"].score = NoScore

\* the generate_minigame requests that were answered
MinigamesDone == {r \in DOMAIN requests :
                    requests[r].endpoint = "generate_minigame" /\ requests[r].at = "done"}

\* C28: generate_minigame never ends in an HTTP error: whatever is raised
\* inside it, its own 404 for a quiz that is not stored included, ends in
\* an ordinary response with status 'error' and the placeholder page
C28_MinigameNever404 ==
    \A r \in MinigamesDone :
        LET resp == requests[r].response
        IN  /\ resp.status = 200
            /\ resp.body.status \in {"success", "error"}
            /\ requests[r].request.quiz_id \notin DOMAIN _sessions => resp.body.status = "error"
            /\ resp.body.status = "error" =>
                  /\ resp.body.game_html = "<p>Error generating minigame</p>"
                  /\ resp.body.message[1] = "Failed to generate minigame: "
            /\ resp.body.status = "success" => ~MOCK \/ resp.body.game_html =
                  Canned([name |-> "generate_minigame_html",
                          question |-> requests[r].request.game_prompt,
                          theme |-> requests[r].request.theme])

\* one minigame was asked for the quiz q2, which is not stored, the other
\* for q1 when the local model failed
C28_Witness ==
    /\ MinigamesDone = {"r1", "r2"}
    /\ requests["r1"].request.quiz_id = "q2"
    /\ requests["r1"].response.status = 200
    /\ requests["r1"].response.body.status = "error"
    /\ requests["r1"].response.body.message[2] =
          Raised("HTTPException", "Quiz session not found")
    /\ requests["r2"].request.quiz_id = "q1"
    /\ requests["r2"].response.body.status = "error"
    /\ requests["r2"].response.body.message =
          <<"Failed to generate minigame: ", "Local LLM error: ",
            "All connection attempts failed">>

\* ------------------------------------------- vocabulary of the parser claim
\* the lines of a text, each without the white space around it
StrippedLines(txt) ==
    LET ls == Split(Strip(txt))
    IN  [k \in 1..Len(ls) |-> Strip(ls[k])]

\* the line is empty or starts with '#' or '//'
IsEmptyOrComment(line) ==
    \/ Len(line) = 0
    \/ line[1] = "#"
    \/ Len(line) >= 2 /\ line[1] = "/" /\ line[2] = "/"

\* the line starts with digits followed by '.'
StartsWithNumber(line) ==
    \E d \in 1..(Len(line) - 1) :
        /\ \A p \in 1..d : IsDigit(line[p])
        /\ line[d + 1] = "."

\* what follows the first '.' of the line, without leading white space
AfterNumber(line) == Strip(Tail2(line, Min({p \in 1..Len(line) : line[p] = "."}) + 1))

\* the numbered lines of a text, and those that start a question
NumberedAt(ls) == {k \in 1..Len(ls) : ~IsEmptyOrComment(ls[k]) /\ StartsWithNumber(ls[k])}
QuestionsAt(ls) == {k \in NumberedAt(ls) : AfterNumber(ls[k]) # <<>>}

\* the text of the question that starts at line k: the rest of that line
\* and every line up to the next numbered line that is not skipped, with
\* one space between them
ExpectedText(ls, k) ==
    LET next == Min({j \in NumberedAt(ls) : j > k} \cup {Len(ls) + 1})
        Sub[j \in k..(next - 1)] ==
            IF j = k THEN AfterNumber(ls[k])
            ELSE IF IsEmptyOrComment(ls[j]) THEN Sub[j - 1]
            ELSE Sub[j - 1] \o <<" ">> \o ls[j]
    IN  Sub[next - 1]

\* the questions are these, in the order of their lines
AreTheNumberedQuestions(questions, txt) ==
    LET ls == StrippedLines(txt)
        at == QuestionsAt(ls)
    IN  /\ Len(questions) = Cardinality(at)
        /\ \A k \in at :
              questions[Cardinality({j \in at : j <= k})].original_text = ExpectedText(ls, k)
        /\ \A p, q \in 1..Len(questions) : p # q => questions[p].id # questions[q].id

\* ------------------------------------------------------------------ claims
\* C30: parse_numbered_questions returns, in the order of the input, one
\* question for each line that starts with digits and '.' and has text
\* behind that prefix; the text of the question is that rest and every
\* later line up to the next numbered line, joined by single spaces; empty
\* lines and lines starting with '#' or '//' are skipped, and the lines
\* before the first numbered line are part of no question.  auto_parse
\* returns the same for a text with a numbered line
C30_NumberedQuestions ==
    \A r \in DOMAIN requests :
        requests[r].at = "done" =>
            /\ requests[r].endpoint = "parse_numbered_questions" =>
                  AreTheNumberedQuestions(requests[r].response.body.questions,
                                          requests[r].request.text)
            /\ requests[r].endpoint = "auto_parse"
                    /\ HasNumberedLine(requests[r].request.text) =>
                  AreTheNumberedQuestions(requests[r].response.body.questions,
                                          requests[r].request.text)

\* a plain line, a question, a comment that looks like a question and a
\* second line of the question: one question, "a e f"
C30_Witness ==
    /\ "r1" \in DOMAIN requests
    /\ requests["r1"].endpoint = "parse_numbered_questions"
    /\ requests["r1"].at = "done"
    /\ requests["r1"].request.text =
          Join(<< <<"d">>, <<"1", ".", " ", "a">>, <<"#", "1", ".", "g">>, <<"e", " ", "f">> >>)
    /\ Len(requests["r1"].response.body.questions) = 1
    /\ requests["r1"].response.body.questions[1].original_text = <<"a", " ", "e", " ", "f">>

\* ------------------------------------------- vocabulary of the upload claim
\* the uploads, those that returned a quiz and those in the loop of
\* main.py 184-223
Uploads == {r \in DOMAIN requests : requests[r].endpoint = "upload_quiz_file"}
Uploaded == {r \in Uploads : requests[r].at = "done" /\ requests[r].response.status = 200}
Processing ==
    {r \in Uploads : requests[r].at = "awaiting" /\ requests[r].locals.line \in {186, 196}}

\* the calls of store_session for this quiz id
StoresOf(quiz_id) ==
    {p \in 1..Len(calls) : calls[p].op = "store_session" /\ calls[p].quiz_id = quiz_id}

\* the quiz questions are those of the questions, one for one and in order
OneForOne(quiz_questions, questions) ==
    \A p \in 1..Len(quiz_questions) :
        /\ quiz_questions[p].id = questions[p].id
        /\ quiz_questions[p].original = questions[p].original_text

\* no two of the quiz questions have the same id
DistinctIds(quiz_questions) ==
    \A p, q \in 1..Len(quiz_questions) : p # q => quiz_questions[p].id # quiz_questions[q].id

\* the '[Error processing]' placeholder of a question
IsPlaceholder(quiz_question) ==
    /\ quiz_question.rewritten = <<"[Error processing] ">> \o quiz_question.original
    /\ quiz_question.correct_answer = <<"Error">>

\* ------------------------------------------------------------------ claims
\* C29: upload_quiz_file returns one quiz question for each question
\* parsed, in the order parsed and with its id, the questions whose
\* processing raised included (as '[Error processing]' placeholders); the
\* session is stored once, after the last question was processed, under
\* the quiz id returned and with these question ids; an upload that is
\* rejected (the file name does not end in .txt, or no question is found)
\* stores nothing
C29_UploadStoresOnce ==
    /\ Len(calls) = Cardinality(Uploaded)
    /\ DOMAIN _sessions = {requests[r].response.body.quiz_id : r \in Uploaded}
    /\ \A r \in Processing :
          LET locals == requests[r].locals
          IN  /\ StoresOf(locals.quiz_id) = {}
              /\ Len(locals.quiz_questions) < Len(locals.questions)
              /\ OneForOne(locals.quiz_questions, locals.questions)
              /\ DistinctIds(locals.quiz_questions)
    /\ \A r \in Uploads :
          LET req == requests[r].request
              parsed == auto_parse(req.content, 1)
              accepted == EndsWith(req.filename, <<".", "t", "x", "t">>) /\ parsed # <<>>
          IN  /\ requests[r].at = "done" => (requests[r].response.status = 200 <=> accepted)
              /\ requests[r].at = "done" /\ ~accepted => requests[r].response.status = 400
              /\ r \in Processing =>
                    /\ Len(requests[r].locals.questions) = Len(parsed)
                    /\ \A p \in 1..Len(parsed) :
                          requests[r].locals.questions[p].original_text = parsed[p].original_text
              /\ r \in Uploaded =>
                    LET body == requests[r].response.body
                        session == _sessions[body.quiz_id]
                    IN  /\ Len(body.questions) = Len(parsed)
                        /\ DistinctIds(body.questions)
                        /\ \A p \in 1..Len(parsed) :
                              /\ body.questions[p].original = parsed[p].original_text
                              /\ body.questions[p].id \in DOMAIN session.questions
                              /\ session.questions[body.questions[p].id].id = body.questions[p].id
                              /\ session.questions[body.questions[p].id].original_text
                                    = body.questions[p].original
                              /\ \/ IsPlaceholder(body.questions[p])
                                 \/ body.questions[p].rewritten
                                      = session.questions[body.questions[p].id].rewritten_text
                        /\ DOMAIN session.questions
                              = {body.questions[p].id : p \in 1..Len(body.questions)}
                        /\ session.quiz_id = body.quiz_id
                        /\ Cardinality(StoresOf(body.quiz_id)) = 1

\* a file with two questions: the picture of the first raised, the second
\* went well; both are returned, in order, and the session has both
C29_Witness ==
    /\ Uploaded = {"r1"}
    /\ requests["r1"].request.content = Join(<< <<"1", ".", " ", "a">>, <<"d">>, <<"1", ".", " ", "a">> >>)
    /\ Len(requests["r1"].response.body.questions) = 2
    /\ requests["r1"].response.body.questions[1].id = "u1"
    /\ requests["r1"].response.body.questions[1].original = <<"a", " ", "d">>
    /\ IsPlaceholder(requests["r1"].response.body.questions[1])
    /\ requests["r1"].response.body.questions[2].id = "u2"
    /\ ~IsPlaceholder(requests["r1"].response.body.questions[2])
    /\ requests["r1"].response.body.quiz_id = "u3"
    /\ DOMAIN _sessions["u3"].questions = {"u1", "u2"}
    /\ Len(calls) = 1

====
